---------------------------- MODULE Spec2Model ----------------------------
(***************************************************************************)
(* Checkpoint/restore (CRaC) subsystem of src/hotspot/os/linux/os_linux.cpp *)
(*                                                                         *)
(* The model follows the code of os::Linux::checkpoint, VM_Crac::doit,     *)
(* checkpoint_restore, call_crengine, VM_Crac::read_shm, FdsInfo and the   *)
(* marking passes.  Threads call os::Linux::checkpoint; the VM operation   *)
(* VM_Crac runs under Heap_lock.                                           *)
(***************************************************************************)
EXTENDS Integers, Sequences, FiniteSets, TLC

(***************************************************************************)
(* Bounds of the model.                                                    *)
(***************************************************************************)
\* value returned by sysconf(_SC_OPEN_MAX): number of descriptor slots scanned
OpenMax == 8
\* the wall clock takes the values 1..MaxTime
MaxTime == 2
\* shared-memory segments /crac_1 .. /crac_MaxShmId may exist
MaxShmId == 1
\* exit statuses 0..MaxExit of the engine process
MaxExit == 1
\* a restoring process has at most MaxProps system properties
MaxProps == 2
\* and at most MaxEnv environment entries
MaxEnv == 2
\* descriptor numbers the application opens, dup's and closes: 0..AppFdMax-1
AppFdMax == 4
\* longest registry the concurrent callers build
MaxRegistry == 3

(***************************************************************************)
(* Program constants.                                                      *)
(***************************************************************************)
\* FdsInfo::state_t
CLOSED == -2
ROOT == -1
DUP_OF_0 == 0
\* flag toggled by the alias probe (test_flag in FdsInfo::same_fd)
O_NONBLOCK == 2048
\* descriptor number returned by fstat/fcntl/shm_open on failure; also "no descriptor"
NoFd == -1

NULL == "NULL"

\* FdsInfo::mark_t, kept as a set of mark names instead of a bit mask
M_ZIP_CACHE == "M_ZIP_CACHE"
M_CANT_RESTORE == "M_CANT_RESTORE"
M_CLASSPATH == "M_CLASSPATH"
M_PERSISTENT == "M_PERSISTENT"

Threads == {1, 2}
\* ids a segment name /crac_<id> is built from; 0 is never a process id
ShmIds == 0..MaxShmId
Slots == 0..(OpenMax - 1)

(***************************************************************************)
(* The descriptor worlds the process can be in when checkpoint is called.  *)
(* An open-file description ("ofd") is what open/socket/pipe creates;      *)
(* dup'ed descriptors share one.  file[o] is what fstat and readlink of    *)
(* /proc/self/fd report for a descriptor of description o:                 *)
(*   type     S_IFMT part of st_mode                                       *)
(*   mjr,mnr  major/minor of st_rdev                                       *)
(*   link     link target of /proc/self/fd/<fd>                            *)
(*   deleted  the link target contains "(deleted)"                         *)
(*   path     characters of the link target, where they matter             *)
(*   silly    nfs_silly_rename of the link target                          *)
(*   sock     line for the socket's inode in /proc/net/{tcp,udp,..}, or "" *)
(*   setfl    F_SETFL changes the status flags (FALSE: the write is        *)
(*            ignored, e.g. an O_PATH descriptor)                          *)
(***************************************************************************)
File(type, dev, ino, mjr, mnr, nlink, link, deleted, silly, sock, setfl) ==
  [type |-> type, dev |-> dev, ino |-> ino, mjr |-> mjr, mnr |-> mnr,
   nlink |-> nlink, link |-> link, deleted |-> deleted, silly |-> silly,
   sock |-> sock, setfl |-> setfl, path |-> <<>>]

\* '/' and the characters of NFS_PREF, ".nfs"
SLASH == 47
NFS_PREF == <<46, 110, 102, 115>>
NFS_PREF_LEN == 4
NFS_FILEID_LEN == 16
NFS_COUNTER_LEN == 8
NFS_LEN == NFS_PREF_LEN + NFS_FILEID_LEN + NFS_COUNTER_LEN

\* isxdigit of the C locale: 0-9, A-F, a-f
isxdigit(c) == c \in 48..57 \/ c \in 65..70 \/ c \in 97..102

\* path[i] of the C string path: its terminating zero at i = strlen(path)
CharAt(path, i) == IF i < Len(path) THEN path[i + 1] ELSE 0

\* strrchr(path, '/') + 1, or path when it has no '/'
BaseOf(path) ==
  LET seps == {k \in 1..Len(path) : path[k] = SLASH}
  IN IF seps = {} THEN path
     ELSE SubSeq(path, 1 + (CHOOSE k \in seps : \A j \in seps : j <= k), Len(path))

\* faulty variant: the digits of the counter are not looked at
nfs_silly_rename_NoCounter(path) ==
  LET base == BaseOf(path)
  IN /\ \A i \in 0..(NFS_PREF_LEN - 1) : CharAt(base, i) = NFS_PREF[i + 1]
     /\ \A i \in NFS_PREF_LEN..(NFS_PREF_LEN + NFS_FILEID_LEN - 1) : isxdigit(CharAt(base, i))

\* nfs_silly_rename: strncmp of the base name with NFS_PREF, then isxdigit
\* of base[NFS_PREF_LEN] .. base[NFS_LEN - 1]; the loop stops at the
\* terminating zero of a shorter name
nfs_silly_rename(path) ==
  LET base == BaseOf(path)
  IN /\ \A i \in 0..(NFS_PREF_LEN - 1) : CharAt(base, i) = NFS_PREF[i + 1]
     /\ \A i \in NFS_PREF_LEN..(NFS_LEN - 1) : isxdigit(CharAt(base, i))

\* a regular file of device 8 with one link whose link target is path
Named(ino, link, path) ==
  [File("S_IFREG", 8, ino, 0, 0, 1, link, FALSE, nfs_silly_rename(path), "", TRUE)
     EXCEPT !.path = path]

Tty     == File("S_IFCHR", 5, 3, 136, 0, 1, "/dev/pts/0", FALSE, FALSE, "", TRUE)
Jar     == File("S_IFREG", 8, 100, 0, 0, 1, "/app/lib/app.jar", FALSE, FALSE, "", TRUE)
GoneJar == File("S_IFREG", 8, 101, 0, 0, 0, "/app/lib/old.jar (deleted)", TRUE, FALSE, "", TRUE)
ExtJar  == File("S_IFREG", 8, 102, 0, 0, 1, "/app/ext/e.jar", FALSE, FALSE, "", TRUE)
AppFile == File("S_IFREG", 8, 200, 0, 0, 1, "/app/data.log", FALSE, FALSE, "", TRUE)
PersFile == File("S_IFREG", 8, 1234, 0, 0, 1, "/app/persist.db", FALSE, FALSE, "", TRUE)
URandom == File("S_IFCHR", 5, 9, 1, 9, 1, "/dev/urandom", FALSE, FALSE, "", TRUE)
DevNull == File("S_IFCHR", 5, 4, 1, 3, 1, "/dev/null", FALSE, FALSE, "", TRUE)
TcpSock == File("S_IFSOCK", 7, 300, 0, 0, 1, "socket:[300]", FALSE, FALSE,
                "tcp localAddr 127.0.0.1 localPort 8080 remoteAddr 0.0.0.0 remotePort 0", TRUE)
UnixSock == File("S_IFSOCK", 7, 301, 0, 0, 1, "socket:[301]", FALSE, FALSE, "", TRUE)
JcmdSock == File("S_IFSOCK", 7, 302, 0, 0, 1, "socket:[302]", FALSE, FALSE, "", TRUE)
Pipe    == File("S_IFIFO", 9, 400, 0, 0, 1, "pipe:[400]", FALSE, FALSE, "", TRUE)
EPoll   == File("S_IFOTHER", 10, 500, 0, 0, 1, "anon_inode:[eventpoll]", FALSE, FALSE, "", TRUE)
ExtDirFile == File("S_IFDIR", 8, 50, 0, 0, 2, "/app/ext", FALSE, FALSE, "", TRUE)

\* a classpath element: what stat(path) reports, and for a directory the
\* inode numbers readdir returns
PathEntry(exists, dev, ino, dents) ==
  [exists |-> exists, dev |-> dev, ino |-> ino, dents |-> dents]

\* A world: base = descriptor table when the VM was created (slot -> ofd),
\* cur = descriptor table now, file = description -> File, flags = F_GETFL
\* value of each description, the class paths, the persistent registry left
\* by earlier register_persistent_fd calls (sorted by fd), and the socket of
\* the attach operation when the request comes from jcmd.
World(base, cur, file, flags, syscp, appcp, extdirs, registry, attach) ==
  [base |-> base, cur |-> cur, file |-> file, flags |-> flags, syscp |-> syscp,
   appcp |-> appcp, extdirs |-> extdirs, registry |-> registry, attach |-> attach]

NoEntry == PathEntry(FALSE, 0, 0, {})
Modules == PathEntry(TRUE, 8, 90, {})

\* stdio on 0,1,2 (one description, dup'ed), a class path jar on 3: nothing blocks
WorldClean ==
  World(<<1, 1, 1>>, <<1, 1, 1, 2>>,
        <<Tty, Jar>>, <<2, 0>>,
        <<Modules>>, <<PathEntry(TRUE, 8, 100, {})>>, <<NoEntry>>,
        <<>>, NoFd)

\* stdio on 0,1,2, slots 3,4 closed, a class path jar on 5, an application
\* file on 6
WorldA ==
  World(<<1, 1, 1>>, <<1, 1, 1, NoFd, NoFd, 2, 3>>,
        <<Tty, Jar, AppFile>>, <<2, 0, 1>>,
        <<Modules>>, <<PathEntry(TRUE, 8, 100, {}), NoEntry>>, <<NoEntry>>,
        <<>>, NoFd)

\* stdin only in the baseline; a TCP socket, a pipe, a registered persistent
\* file, /dev/urandom, the jcmd socket, a deleted class path jar and an
\* eventpoll descriptor opened later
WorldB ==
  World(<<1>>, <<1, 2, 3, 4, 5, 6, 7, 8>>,
        <<Tty, TcpSock, Pipe, PersFile, URandom, JcmdSock, GoneJar, EPoll>>,
        <<2, 2, 0, 2, 0, 2, 0, 2>>,
        <<Modules>>, <<PathEntry(TRUE, 8, 101, {})>>,
        <<PathEntry(TRUE, 8, 50, {102}), NoEntry>>,
        <<[fd |-> 3, dev |-> 8, ino |-> 1234]>>, 5)

Worlds == {WorldClean, WorldA, WorldB}

\* stdin in the baseline and dup'ed to 1 afterwards; /app/persist.db open on
\* 2, dup'ed to 3, and opened a second time on 4 with the same flags
WorldC ==
  World(<<1>>, <<1, 1, 2, 2, 3>>,
        <<Tty, PersFile, PersFile>>, <<2, 0, 0>>,
        <<Modules>>, <<NoEntry>>, <<NoEntry>>,
        <<>>, NoFd)

\* a directory opened with O_PATH: F_SETFL fails on such a descriptor
PathDir == File("S_IFDIR", 8, 60, 0, 0, 2, "/app/data", FALSE, FALSE, "", FALSE)

\* stdin in the baseline.  The descriptions the application can open:
\* /app/persist.db twice (2 and 3, same flags), a directory with O_PATH (4),
\* a deleted class path jar (5), /dev/urandom (6), the jcmd socket (7) and a
\* class path jar (8).  Descriptor 1 is registered as persistent with the
\* identity of the deleted jar, descriptor 2 with that of /app/persist.db.
\* A jcmd request comes over descriptor 3 when a socket is open there.
WorldD ==
  World(<<1>>, <<1>>,
        <<Tty, PersFile, PersFile, PathDir, GoneJar, URandom, JcmdSock, Jar>>,
        <<2, 0, 0, 0, 0, 0, 2, 0>>,
        <<Modules>>, <<PathEntry(TRUE, 8, 101, {}), PathEntry(TRUE, 8, 100, {})>>,
        <<NoEntry>>,
        <<[fd |-> 1, dev |-> 8, ino |-> 101], [fd |-> 2, dev |-> 8, ino |-> 1234]>>, 3)

Ext2Jar == File("S_IFREG", 8, 103, 0, 0, 1, "/app/ext2/f.jar", FALSE, FALSE, "", TRUE)

\* stdin in the baseline.  The descriptions the application can open: e.jar
\* of the extension directory /app/ext (2), f.jar of the extension directory
\* /app/ext2 (3), the class path jar (4) and an application file (5).  The
\* extension directories are given as "/app/ext:/app/ext2".
WorldE ==
  World(<<1>>, <<1>>,
        <<Tty, ExtJar, Ext2Jar, Jar, AppFile>>,
        <<2, 0, 0, 0, 0>>,
        <<Modules>>, <<PathEntry(TRUE, 8, 100, {})>>,
        <<PathEntry(TRUE, 8, 50, {102}), PathEntry(TRUE, 8, 51, {103})>>,
        <<>>, NoFd)

\* n times the character c
Rep(c, n) == [k \in 1..n |-> c]

\* "/d/.nfs" and the digits of a file id
SillyStem == <<SLASH, 100, SLASH>> \o NFS_PREF \o Rep(48, NFS_FILEID_LEN)

\* link targets: a silly-rename name (counter "aaaaaaaA"), the same name
\* with ".j" behind it, a name one digit short, a name whose last counter
\* digit is 'g', and the file x in a directory that has a silly-rename name
SillyFile == Named(601, "/d/.nfs0000000000000000aaaaaaaA",
                   SillyStem \o Rep(97, NFS_COUNTER_LEN - 1) \o <<65>>)
SillyLong == Named(602, "/d/.nfs0000000000000000aaaaaaaA.j",
                   SillyStem \o Rep(97, NFS_COUNTER_LEN - 1) \o <<65, 46, 106>>)
SillyShort == Named(603, "/d/.nfs0000000000000000aaaaaaa",
                    SillyStem \o Rep(97, NFS_COUNTER_LEN - 1))
SillyBadDigit == Named(604, "/d/.nfs0000000000000000aaaaaaag",
                       SillyStem \o Rep(97, NFS_COUNTER_LEN - 1) \o <<103>>)
InSillyDir == Named(605, "/d/.nfs0000000000000000aaaaaaaA/x",
                    SillyStem \o Rep(97, NFS_COUNTER_LEN - 1) \o <<65, SLASH, 120>>)

\* stdin in the baseline.  The descriptions the application can open: the
\* five files above (2 to 6), a deleted jar without links (7) and an
\* application file (8).
WorldF ==
  World(<<1>>, <<1>>,
        <<Tty, SillyFile, SillyLong, SillyShort, SillyBadDigit, InSillyDir, GoneJar, AppFile>>,
        <<2, 0, 0, 0, 0, 0, 0, 0>>,
        <<Modules>>, <<NoEntry>>, <<NoEntry>>,
        <<>>, NoFd)

BlockDev == File("S_IFBLK", 5, 20, 8, 0, 1, "/dev/sda", FALSE, FALSE, "", TRUE)
SymLink == File("S_IFLNK", 8, 70, 0, 0, 1, "/app/current", FALSE, FALSE, "", FALSE)

\* stdin in the baseline.  The descriptions the application can open, one
\* of every file type: a TCP socket (2), a regular file (3), a directory (4),
\* a block device (5), /dev/null (6), a symbolic link opened with
\* O_PATH | O_NOFOLLOW (7), a pipe (8) and an eventpoll descriptor (9).
WorldG ==
  World(<<1>>, <<1>>,
        <<Tty, TcpSock, AppFile, PathDir, BlockDev, DevNull, SymLink, Pipe, EPoll>>,
        <<2, 2, 0, 0, 0, 2, 0, 0, 2>>,
        <<Modules>>, <<NoEntry>>, <<NoEntry>>,
        <<>>, NoFd)

\* descriptor table of a world as a function on Slots
SlotsOf(seq) == [i \in Slots |-> IF i < Len(seq) THEN seq[i + 1] ELSE NoFd]


(***************************************************************************)
(* FD Classifier: FdsInfo.                                                 *)
(* A table is [len, info] with info[i] = [stat, state, mark] for i < len.  *)
(* The stat buffer and the mark of a CLOSED slot are never initialised by  *)
(* the code: the buffer holds whatever the heap block held before (junk).  *)
(* Only mark_classpath_entry reads it; same_fd is false for a closed slot  *)
(* whatever it holds.  The mark of a CLOSED slot starts as {} here; no     *)
(* code reads it.                                                          *)
(***************************************************************************)
NoStat == File("uninitialised", NoFd, NoFd, 0, 0, 0, "", FALSE, FALSE, "", FALSE)

NotInited == [len |-> -1, info |-> <<>>]

inited(fds) == fds.len # -1

\* FdsInfo::get_state(i, orstate)
get_state(fds, i, orstate) ==
  IF i < fds.len THEN fds.info[i].state ELSE orstate

get_stat(fds, i) == fds.info[i].stat

\* FdsInfo::mark: _fdinfos[i].mark |= m
mark(fds, i, m) ==
  [fds EXCEPT !.info[i].mark = @ \cup {m}]

\* FdsInfo::check
check(fds, i, m) == m \in fds.info[i].mark

same_stat(st1, st2) == st1.dev = st2.dev /\ st1.ino = st2.ino

\* fcntl(fd, F_GETFL): the status flags of the description, -1 on a closed slot
F_GETFL(p, fl, fd) == IF p[fd] = NoFd THEN -1 ELSE fl[p[fd]]

\* fcntl(fd, F_SETFL, v): sets the flags of the description fd refers to,
\* unless the kernel ignores the write for this kind of file
F_SETFL(p, files, fl, fd, v) ==
  IF p[fd] # NoFd /\ files[p[fd]].setfl THEN [fl EXCEPT ![p[fd]] = v] ELSE fl

\* flags ^ test_flag for the single bit test_flag
XorFlag(flags, bit) ==
  IF (flags \div bit) % 2 = 1 THEN flags - bit ELSE flags + bit

\* faulty variant: equal identity and equal flags make two descriptors the same
same_fd_ByFlags(fds, p, files, fl, fd1, fd2) ==
  IF p[fd1] = NoFd THEN [same |-> FALSE, fl |-> fl]
  ELSE [same |-> /\ same_stat(get_stat(fds, fd1), get_stat(fds, fd2))
                 /\ F_GETFL(p, fl, fd1) = F_GETFL(p, fl, fd2),
        fl |-> fl]

\* FdsInfo::same_fd(fd1, fd2), with the descriptions' flags it leaves behind.
\* fd2 is always a ROOT (open) slot.  When fd1 is a closed slot its stat
\* buffer is uninitialised, but whichever way same_stat comes out the result
\* is false without a flag write: F_GETFL fails on fd1 and succeeds on fd2.
\* The last call, fcntl(fd1, flags1), passes the saved flags as the command
\* and does not write the flags back.
same_fd(fds, p, files, fl, fd1, fd2) ==
  IF p[fd1] = NoFd THEN [same |-> FALSE, fl |-> fl]
  ELSE IF ~same_stat(get_stat(fds, fd1), get_stat(fds, fd2))
  THEN [same |-> FALSE, fl |-> fl]
  ELSE LET flags1 == F_GETFL(p, fl, fd1)
           flags2 == F_GETFL(p, fl, fd2)
           new_flags1 == XorFlag(flags1, O_NONBLOCK)
           fl1 == F_SETFL(p, files, fl, fd1, new_flags1)
           new_flags2 == F_GETFL(p, fl1, fd2)
       IN IF flags1 # flags2 THEN [same |-> FALSE, fl |-> fl]
          ELSE IF F_GETFL(p, fl1, fd1) # new_flags1
          THEN [same |-> FALSE, fl |-> fl1]
          ELSE [same |-> (new_flags1 = new_flags2), fl |-> fl1]

\* first loop of FdsInfo::initialize: fstat every slot below max_fd
FstatAll(p, files, max_fd, junk) ==
  [i \in 0..(max_fd - 1) |->
     IF p[i] = NoFd
     THEN [stat |-> junk, state |-> CLOSED, mark |-> {}]
     ELSE [stat |-> files[p[i]], state |-> ROOT, mark |-> {}]]

\* faulty variant: last_fd is the first open slot found, not the last
LastFd_First(p, max_fd) ==
  LET open == {i \in 0..(max_fd - 1) : p[i] # NoFd}
  IN IF open = {} THEN -1 ELSE CHOOSE i \in open : \A k \in open : i <= k

\* _len = last_fd + 1
LastFd(p, max_fd) ==
  LET open == {i \in 0..(max_fd - 1) : p[i] # NoFd}
  IN IF open = {} THEN -1 ELSE CHOOSE i \in open : \A k \in open : k <= i

\* faulty variant: the candidates are not tested for ROOT and the last one
\* that is the same descriptor wins
RECURSIVE AliasScan_LastOfAny(_, _, _, _, _, _)
AliasScan_LastOfAny(fds, p, files, fl, i, j) ==
  IF j >= i THEN [fds |-> fds, fl |-> fl]
  ELSE IF get_state(fds, j, CLOSED) # CLOSED
  THEN LET r == same_fd(fds, p, files, fl, i, j)
       IN AliasScan_LastOfAny(IF r.same THEN [fds EXCEPT !.info[i].state = DUP_OF_0 + j]
                              ELSE fds,
                              p, files, r.fl, i, j + 1)
  ELSE AliasScan_LastOfAny(fds, p, files, fl, i, j + 1)

\* inner loop of FdsInfo::initialize for slot i, from candidate j on
RECURSIVE AliasScan(_, _, _, _, _, _)
AliasScan(fds, p, files, fl, i, j) ==
  IF j >= i THEN [fds |-> fds, fl |-> fl]
  ELSE IF get_state(fds, j, CLOSED) = ROOT
  THEN LET r == same_fd(fds, p, files, fl, i, j)
       IN IF r.same
          THEN [fds |-> [fds EXCEPT !.info[i].state = DUP_OF_0 + j], fl |-> r.fl]
          ELSE AliasScan(fds, p, files, r.fl, i, j + 1)
  ELSE AliasScan(fds, p, files, fl, i, j + 1)

\* the test that marks a ROOT record M_CANT_RESTORE
CantRestore(st) == st.nlink = 0 \/ st.deleted \/ st.silly

\* second loop of FdsInfo::initialize, from slot i on
RECURSIVE ClassifyFrom(_, _, _, _, _)
ClassifyFrom(fds, p, files, fl, i) ==
  IF i >= fds.len THEN [fds |-> fds, fl |-> fl]
  ELSE LET a == AliasScan(fds, p, files, fl, i, 0)
           f1 == IF get_state(a.fds, i, CLOSED) = ROOT /\ CantRestore(get_stat(a.fds, i))
                 THEN mark(a.fds, i, M_CANT_RESTORE)
                 ELSE a.fds
       IN ClassifyFrom(f1, p, files, a.fl, i + 1)

\* FdsInfo::initialize: the table and the flags of the descriptions after it
FdsInfo_initialize(p, files, fl, max_fd, junk) ==
  LET len == LastFd(p, max_fd) + 1
      all == FstatAll(p, files, max_fd, junk)
      fds0 == [len |-> len, info |-> [i \in 0..(len - 1) |-> all[i]]]
  IN ClassifyFrom(fds0, p, files, fl, 0)

(***************************************************************************)
(* Marking passes.                                                         *)
(***************************************************************************)
\* mark_classpath_entry: every slot, open or not, whose stat buffer holds
\* the identity of stat(cp)
mark_classpath_entry(fds, cp) ==
  IF ~cp.exists THEN fds
  ELSE [len |-> fds.len,
        info |-> [i \in DOMAIN fds.info |->
           LET e == fds.info[i]
           IN IF cp.dev = e.stat.dev /\ cp.ino = e.stat.ino
              THEN [e EXCEPT !.mark = e.mark \cup {M_CLASSPATH}]
              ELSE e]]

\* mark_all_in: every ROOT slot whose inode is an entry of directory dirpath
mark_all_in(fds, dirpath) ==
  IF ~dirpath.exists THEN fds
  ELSE [len |-> fds.len,
        info |-> [i \in DOMAIN fds.info |->
           LET e == fds.info[i]
           IN IF e.state = ROOT /\ e.stat.ino \in dirpath.dents
              THEN [e EXCEPT !.mark = e.mark \cup {M_CLASSPATH}]
              ELSE e]]

\* do_classpaths(fn, fds, classpath): fn on every element followed by ':',
\* mark_classpath_entry on the last one.  all_in selects fn = mark_all_in.
RECURSIVE do_classpaths(_, _, _)
do_classpaths(all_in, fds, classpath) ==
  IF Len(classpath) = 1 THEN mark_classpath_entry(fds, classpath[1])
  ELSE do_classpaths(all_in,
                     IF all_in THEN mark_all_in(fds, classpath[1])
                     ELSE mark_classpath_entry(fds, classpath[1]),
                     Tail(classpath))

\* the registry: a NULL pointer or a list of [fd, dev, ino]
NullRegistry == [isnull |-> TRUE, list |-> <<>>]
Registry(list) == [isnull |-> FALSE, list |-> list]

\* loop of mark_persistent over the registry entries from index k on
RECURSIVE MarkPersistentFrom(_, _, _)
MarkPersistentFrom(fds, list, k) ==
  IF k > Len(list) THEN fds
  ELSE LET pr == list[k]
       IN IF fds.len <= pr.fd THEN fds
          ELSE IF get_state(fds, pr.fd, CLOSED) # ROOT
          THEN MarkPersistentFrom(fds, list, k + 1)
          ELSE IF get_stat(fds, pr.fd).dev = pr.dev /\ get_stat(fds, pr.fd).ino = pr.ino
          THEN MarkPersistentFrom(mark(fds, pr.fd, M_PERSISTENT), list, k + 1)
          ELSE MarkPersistentFrom(fds, list, k + 1)

\* mark_persistent: the marked table; the registry is deleted afterwards
mark_persistent(fds, reg) ==
  IF reg.isnull THEN fds ELSE MarkPersistentFrom(fds, reg.list, 1)

(***************************************************************************)
(* Persistent-resource registry.  Index i of the GrowableArray is element  *)
(* i + 1 of the list.                                                      *)
(***************************************************************************)
PersistentResourceDesc(fd, st_dev, st_ino) == [fd |-> fd, dev |-> st_dev, ino |-> st_ino]

\* GrowableArray::insert_before, at_put and remove_at
insert_before(list, i, e) == SubSeq(list, 1, i) \o <<e>> \o SubSeq(list, i + 1, Len(list))
at_put(list, i, e) == [list EXCEPT ![i + 1] = e]
remove_at(list, i) == SubSeq(list, 1, i) \o SubSeq(list, i + 2, Len(list))

\* faulty variant: an entry with the same descriptor number is not looked for
RECURSIVE RegisterScan_NoDup(_, _, _)
RegisterScan_NoDup(list, fd, i) ==
  IF ~(i < Len(list)) THEN [dup |-> -1, i |-> i]
  ELSE IF fd < list[i + 1].fd THEN [dup |-> -1, i |-> i]
  ELSE RegisterScan_NoDup(list, fd, i + 1)

\* the while loop of register_persistent_fd from index i on: dup and i
\* when it ends
RECURSIVE RegisterScan(_, _, _)
RegisterScan(list, fd, i) ==
  IF ~(i < Len(list)) THEN [dup |-> -1, i |-> i]
  ELSE LET pfd == list[i + 1].fd
       IN IF pfd = fd THEN [dup |-> i, i |-> i]
          ELSE IF fd < pfd THEN [dup |-> -1, i |-> i]
          ELSE RegisterScan(list, fd, i + 1)

\* os::Linux::register_persistent_fd: the registry after the call; to is
\* CRaCCheckpointTo
register_persistent_fd(reg, to, fd, st_dev, st_ino) ==
  IF to = NULL THEN reg
  ELSE LET s == RegisterScan(reg.list, fd, 0)
           e == PersistentResourceDesc(fd, st_dev, st_ino)
       IN Registry(IF 0 <= s.dup THEN at_put(reg.list, s.dup, e)
                   ELSE insert_before(reg.list, s.i, e))

\* the test of the loop of deregister_persistent_fd on entry pr
DeregisterMatch(pr, fd, st_dev, st_ino) ==
  pr.fd = fd /\ pr.dev = st_dev /\ pr.ino = st_ino

\* arguments the embedding code calls register and deregister with, by
\* name: descriptors 2, 3 and 6 with the identity of /app/persist.db and
\* descriptor 3 with another identity as well, or descriptors 2 and 4 only
RegArgs(name) ==
  IF name = "RegAll"
  THEN {PersistentResourceDesc(2, 8, 1234), PersistentResourceDesc(3, 8, 1234),
        PersistentResourceDesc(3, 8, 200), PersistentResourceDesc(6, 8, 1234)}
  ELSE {PersistentResourceDesc(2, 8, 1234), PersistentResourceDesc(4, 8, 1234)}


(***************************************************************************)
(* Resource policy: the decision loop of VM_Crac::doit.                    *)
(***************************************************************************)
\* faulty variant: the directory case is missing
stat2stfail_NoDir(type) ==
  CASE type = "S_IFSOCK" -> "JVM_CR_FAIL_SOCK"
    [] type \in {"S_IFLNK", "S_IFREG", "S_IFBLK", "S_IFCHR"} -> "JVM_CR_FAIL_FILE"
    [] type = "S_IFIFO" -> "JVM_CR_FAIL_PIPE"
    [] OTHER -> "JVM_CR_FAIL"

\* stat2stfail
stat2stfail(type) ==
  CASE type = "S_IFSOCK" -> "JVM_CR_FAIL_SOCK"
    [] type \in {"S_IFLNK", "S_IFREG", "S_IFBLK", "S_IFDIR", "S_IFCHR"} -> "JVM_CR_FAIL_FILE"
    [] type = "S_IFIFO" -> "JVM_CR_FAIL_PIPE"
    [] OTHER -> "JVM_CR_FAIL"

\* sock_details: the decoded endpoints when the socket's inode is found in
\* one of the kernel's connection tables, else the raw link target
sock_details(st, details) == IF st.sock # "" THEN st.sock ELSE details

\* VM_Crac::is_socket_from_jcmd
is_socket_from_jcmd(attach_op, sock) ==
  IF attach_op = NoFd THEN FALSE ELSE sock = attach_op

\* faulty variant: a class path descriptor is let through although it
\* cannot be restored
Decide_ClasspathAlways(fds, vm_inited, attach_op, i) ==
  LET st == get_stat(fds, i)
  IN IF get_state(vm_inited, i, CLOSED) # CLOSED THEN "OK: inherited from process env"
     ELSE IF st.type = "S_IFCHR" /\ st.mjr = 1 /\ (st.mnr = 8 \/ st.mnr = 9)
     THEN "OK: always available, random or urandom"
     ELSE IF check(fds, i, M_CLASSPATH) THEN "OK: in classpath"
     ELSE IF check(fds, i, M_PERSISTENT) THEN "OK: assured persistent"
     ELSE IF st.type = "S_IFSOCK" /\ is_socket_from_jcmd(attach_op, i)
     THEN "OK: jcmd socket"
     ELSE "BAD: opened by application"

\* the rule that lets descriptor i stay open, or "BAD"
Decide(fds, vm_inited, attach_op, i) ==
  LET st == get_stat(fds, i)
  IN IF get_state(vm_inited, i, CLOSED) # CLOSED THEN "OK: inherited from process env"
     ELSE IF st.type = "S_IFCHR" /\ st.mjr = 1 /\ (st.mnr = 8 \/ st.mnr = 9)
     THEN "OK: always available, random or urandom"
     ELSE IF check(fds, i, M_CLASSPATH) /\ ~check(fds, i, M_CANT_RESTORE)
     THEN "OK: in classpath"
     ELSE IF check(fds, i, M_PERSISTENT) THEN "OK: assured persistent"
     ELSE IF st.type = "S_IFSOCK" /\ is_socket_from_jcmd(attach_op, i)
     THEN "OK: jcmd socket"
     ELSE "BAD: opened by application"

\* CracFailDep(stat2stfail(st_mode & S_IFMT), msg)
CracFailDep(st) ==
  [type |-> stat2stfail(st.type),
   msg |-> IF st.type = "S_IFSOCK" THEN sock_details(st, st.link) ELSE st.link]

\* faulty variant: a failure is put in front of the list
RECURSIVE EvalFrom_Prepends(_, _, _, _, _, _)
EvalFrom_Prepends(fds, vm_inited, attach_op, i, ok, failures) ==
  IF i >= fds.len THEN [ok |-> ok, failures |-> failures]
  ELSE IF get_state(fds, i, CLOSED) = CLOSED
  THEN EvalFrom_Prepends(fds, vm_inited, attach_op, i + 1, ok, failures)
  ELSE IF Decide(fds, vm_inited, attach_op, i) # "BAD: opened by application"
  THEN EvalFrom_Prepends(fds, vm_inited, attach_op, i + 1, ok, failures)
  ELSE EvalFrom_Prepends(fds, vm_inited, attach_op, i + 1, FALSE,
                         <<CracFailDep(get_stat(fds, i))>> \o failures)

\* faulty variant: CLOSED records are decided like the others
RECURSIVE EvalFrom_DecidesClosed(_, _, _, _, _, _)
EvalFrom_DecidesClosed(fds, vm_inited, attach_op, i, ok, failures) ==
  IF i >= fds.len THEN [ok |-> ok, failures |-> failures]
  ELSE IF Decide(fds, vm_inited, attach_op, i) # "BAD: opened by application"
  THEN EvalFrom_DecidesClosed(fds, vm_inited, attach_op, i + 1, ok, failures)
  ELSE EvalFrom_DecidesClosed(fds, vm_inited, attach_op, i + 1, FALSE,
                              Append(failures, CracFailDep(get_stat(fds, i))))

\* the loop over the table from slot i on, carrying ok and _failures
RECURSIVE EvalFrom(_, _, _, _, _, _)
EvalFrom(fds, vm_inited, attach_op, i, ok, failures) ==
  IF i >= fds.len THEN [ok |-> ok, failures |-> failures]
  ELSE IF get_state(fds, i, CLOSED) = CLOSED
  THEN EvalFrom(fds, vm_inited, attach_op, i + 1, ok, failures)
  ELSE IF Decide(fds, vm_inited, attach_op, i) # "BAD: opened by application"
  THEN EvalFrom(fds, vm_inited, attach_op, i + 1, ok, failures)
  ELSE EvalFrom(fds, vm_inited, attach_op, i + 1, FALSE,
                Append(failures, CracFailDep(get_stat(fds, i))))

\* faulty variant: ok starts true whatever the mode
InitialOk_AlwaysTrue(dry_run) == TRUE

\* bool ok = !_dry_run
InitialOk(dry_run) == ~dry_run

\* lines 6262-6314 of doit: the local ok and the failure list
Evaluation(fds, vm_inited, attach_op, dry_run) ==
  EvalFrom(fds, vm_inited, attach_op, 0, InitialOk(dry_run), <<>>)

(***************************************************************************)
(* External engine and restore signal.                                     *)
(***************************************************************************)
\* what can happen to the forked engine process
EngineOutcomes ==
  {[kind |-> k, status |-> 0] : k \in {"fork_failed", "exec_failed", "wait_failed", "signaled"}}
    \cup {[kind |-> "exited", status |-> s] : s \in 0..MaxExit}

\* faulty variant: the exit status of the engine is not looked at
call_crengine_IgnoresStatus(crengine, o) ==
  IF crengine = NULL THEN -1
  ELSE IF o.kind = "fork_failed" THEN -1
  ELSE IF o.kind = "wait_failed" \/ o.kind = "signaled" THEN -1
  ELSE 0

\* faulty variant: an engine killed by a signal counts as success
call_crengine_IgnoresSignaled(crengine, o) ==
  IF crengine = NULL THEN -1
  ELSE IF o.kind = "fork_failed" \/ o.kind = "wait_failed" THEN -1
  ELSE IF o.kind = "exec_failed" THEN -1
  ELSE IF o.kind = "signaled" THEN 0
  ELSE IF o.status = 0 THEN 0 ELSE -1

\* call_crengine: 0 when the engine ran and exited 0, else -1
call_crengine(crengine, o) ==
  IF crengine = NULL THEN -1
  ELSE IF o.kind = "fork_failed" THEN -1
  ELSE IF o.kind = "wait_failed" \/ o.kind = "signaled" THEN -1
  ELSE IF o.kind = "exec_failed" THEN -1
  ELSE IF o.status = 0 THEN 0 ELSE -1

\* what happened to the engine, as seen from outside call_crengine
EngineEvent(crengine, o) ==
  IF crengine = NULL THEN "no_engine"
  ELSE IF o.kind # "exited" THEN o.kind
  ELSE IF o.status = 0 THEN "engine_exit0" ELSE "engine_exit_nonzero"

\* siginfo_t of the restore signal: si_code and the queued value si_int
SigInfos ==
  {[si_code |-> c, si_int |-> v] : c \in {"SI_QUEUE", "SI_USER"}, v \in (-1)..MaxShmId}

\* how the restore signal was sent
SignalEvent(info) ==
  IF info.si_code # "SI_QUEUE" THEN "signal_not_queued"
  ELSE IF info.si_int < 0 THEN "signal_queued_negative"
  ELSE IF info.si_int = 0 THEN "signal_queued_0" ELSE "signal_queued_id"

\* faulty variant: a negative queued value is accepted
InvalidInfo_AcceptsNegative(info) == info.si_code # "SI_QUEUE"

\* the test of checkpoint_restore on the received siginfo
InvalidInfo(info) == info.si_code # "SI_QUEUE" \/ info.si_int < 0

\* the clocks: os::javaTimeMillis and os::javaTimeNanos at wall-clock tick n
javaTimeMillis(n) == n

\* faulty variant: the stored value is returned as it is
restore_start_time_Raw(stored) == stored

\* os::Linux::restore_start_time
restore_start_time(stored) == IF stored = 0 THEN -1 ELSE stored
javaTimeNanos(n) == n * 1000000

\* os::Linux::uptime_since_restore at time n
uptime_since_restore(stored, n) == IF stored = 0 THEN -1 ELSE javaTimeNanos(n) - stored


(***************************************************************************)
(* Restore Parameter Channel: CracRestoreParameters.                       *)
(* A segment holds a sequence of cells.  A cell is an integer: one field   *)
(* of the header, or one character of a string (its code), 0 being the     *)
(* terminating zero.  An address is an offset into such a sequence,        *)
(* starting at 0.                                                          *)
(***************************************************************************)
\* the terminating zero character of a C string
NUL == 0
\* the character between key and value in snprintf(prop, "%s=%s", ...)
EQUALS == 61
\* sizeof(header): _restore_time, _restore_counter, _nprops, _env_memory_size
HeaderCells == 4

\* a char*: a null pointer, a string, or a pointer to memory that cannot be
\* read as a string
NullStr == [ptr |-> "null", s |-> <<>>]
Str(s) == [ptr |-> "string", s |-> s]
WildStr == [ptr |-> "unmapped", s |-> <<>>]

\* the n cells at address a
Sub(m, a, n) == SubSeq(m, a + 1, a + n)

\* system_props_length
system_props_length(props) == Len(props)

\* faulty variant: the terminating zeros are not counted
RECURSIVE env_vars_size_NoTerminator(_)
env_vars_size_NoTerminator(env) ==
  IF env = <<>> THEN 0 ELSE Len(Head(env)) + env_vars_size_NoTerminator(Tail(env))

\* env_vars_size: strlen(*env) + 1 summed over the environment
RECURSIVE env_vars_size(_)
env_vars_size(env) ==
  IF env = <<>> THEN 0 ELSE Len(Head(env)) + 1 + env_vars_size(Tail(env))

\* the buffers write_to hands to write(), in order: the header, one
\* "key=value" string per property, one string per environment entry, the
\* argument string; every string with its terminating zero
WriteBuffers(props, env, args, restore_time, restore_counter) ==
  <<(<<restore_time, restore_counter, system_props_length(props), env_vars_size(env)>>)>>
    \o [k \in 1..Len(props) |-> props[k].key \o <<EQUALS>> \o props[k].value \o <<NUL>>]
    \o [k \in 1..Len(env) |-> env[k] \o <<NUL>>]
    \o <<(args \o <<NUL>>)>>

\* what write() does: every call before the at-th writes all it is given;
\* the at-th returns wret, -1 for an error or a count that is too short.
\* at = 0: no write fails.
WriteOutcomes(bufs) ==
  {[at |-> 0, wret |-> 0]}
    \cup UNION {{[at |-> k, wret |-> n] : n \in (-1)..(Len(bufs[k]) - 1)} : k \in 1..Len(bufs)}

\* faulty variant: a short write is taken for a complete one
write_check_error_AcceptsShort(count, wret) == ~(wret < 0)

\* write_check_error: whether write() returned the whole count
write_check_error(count, wret) == ~(wret # count)

\* write_to from the k-th buffer on; written is what the segment holds so far
RECURSIVE WriteFrom(_, _, _, _)
WriteFrom(bufs, k, w, written) ==
  IF k > Len(bufs) THEN [ret |-> TRUE, bytes |-> written]
  ELSE LET count == Len(bufs[k])
           wret == IF w.at = k THEN w.wret ELSE count
           put == SubSeq(bufs[k], 1, IF wret < 0 THEN 0 ELSE wret)
       IN IF ~write_check_error(count, wret)
          THEN [ret |-> FALSE, bytes |-> written \o put]
          ELSE WriteFrom(bufs, k + 1, w, written \o put)

\* CracRestoreParameters::write_to: its result and the cells it wrote
write_to(props, env, args, restore_time, restore_counter, w) ==
  WriteFrom(WriteBuffers(props, env, args, restore_time, restore_counter), 1, w, <<>>)

\* a descriptor from shm_open(O_RDWR | O_CREAT) starts at offset 0 of the
\* segment, which keeps what it held behind the cells written
Overwrite(old, new) == new \o SubSeq(old, Len(new) + 1, Len(old))

\* strlen(m + a): the cells before the next zero; -1 when the scan leaves
\* the memory that can be read (the process gets SIGSEGV)
RECURSIVE strlen(_, _)
strlen(m, a) ==
  IF a < 0 \/ a >= Len(m) THEN -1
  ELSE IF m[a + 1] = NUL THEN 0
  ELSE LET r == strlen(m, a + 1) IN IF r < 0 THEN -1 ELSE r + 1

Faulted == [fault |-> TRUE, cursor |-> 0, strs |-> <<>>]

\* the property loop of read_from with n properties left: m is the buffer
\* of size cells followed by the memory behind it; asserts: a debug build
RECURSIVE ReadProps(_, _, _, _, _, _)
ReadProps(m, size, asserts, n, cursor, props) ==
  IF n <= 0 THEN [fault |-> FALSE, cursor |-> cursor, strs |-> props]
  ELSE LET l == strlen(m, cursor)
       IN IF l < 0 THEN Faulted
          ELSE IF asserts /\ ~(cursor + l <= size) THEN Faulted
          ELSE ReadProps(m, size, asserts, n - 1, cursor + l + 1,
                         Append(props, Sub(m, cursor, l)))

\* the putenv loop of read_from from offset a of env_mem on; buf is env_mem
\* followed by the memory behind it
RECURSIVE PutEnvs(_, _, _, _, _)
PutEnvs(buf, env_memory_size, asserts, a, envs) ==
  IF ~(a < env_memory_size) THEN [fault |-> FALSE, cursor |-> a, strs |-> envs]
  ELSE LET l == strlen(buf, a)
       IN IF l < 0 THEN Faulted
          ELSE IF asserts /\ ~(a + l + 1 <= env_memory_size) THEN Faulted
          ELSE PutEnvs(buf, env_memory_size, asserts, a + l + 1,
                       Append(envs, Sub(buf, a, l)))

ReadFailed ==
  [ret |-> FALSE, fault |-> FALSE, header |-> FALSE, time |-> 0, counter |-> 0,
   properties |-> <<>>, envs |-> <<>>, args |-> NullStr, after_props |-> 0, after_env |-> 0]

ReadFault == [ReadFailed EXCEPT !.fault = TRUE]

\* cursor += hdr->_env_memory_size
AfterEnv(cursor, env_memory_size, scanned) == cursor + env_memory_size

\* CracRestoreParameters::read_from on the cells of the opened segment.
\* io is what fstat and read do.  beyond is the memory behind a heap buffer
\* (the code never checks the counts of the header against st_size, so the
\* loops may read it; reading past it is a fault), asserts tells a debug
\* build, where a failed assert ends the VM, from a product build.
read_from(bytes, io, beyond, asserts) ==
  LET m == bytes \o beyond
      size == Len(bytes)
  IN IF io # "ok" THEN ReadFailed
     ELSE IF Len(m) < HeaderCells THEN ReadFault
     ELSE LET hdr == [_restore_time |-> m[1], _restore_counter |-> m[2],
                      _nprops |-> m[3], _env_memory_size |-> m[4]]
              p == ReadProps(m, size, asserts, hdr._nprops, HeaderCells, <<>>)
              E == hdr._env_memory_size
          IN IF p.fault \/ E < 0 \/ p.cursor + E > Len(m) THEN ReadFault
             ELSE LET e == PutEnvs(Sub(m, p.cursor, E) \o beyond, E, asserts, 0, <<>>)
                      cursor == AfterEnv(p.cursor, E, e.cursor)
                      al == strlen(m, cursor)
                  IN IF e.fault THEN ReadFault
                     ELSE [ret |-> TRUE, fault |-> FALSE, header |-> TRUE,
                           time |-> hdr._restore_time, counter |-> hdr._restore_counter,
                           properties |-> p.strs, envs |-> e.strs,
                           args |-> IF al < 0 THEN WildStr ELSE Str(Sub(m, cursor, al)),
                           after_props |-> p.cursor, after_env |-> cursor]

\* the name of an environment string: what stands before the first '='
NameOf(s) ==
  LET eqs == {k \in 1..Len(s) : s[k] = EQUALS}
  IN IF eqs = {} THEN s ELSE SubSeq(s, 1, (CHOOSE k \in eqs : \A j \in eqs : k <= j) - 1)

\* putenv(s): s replaces the entry of the same name; a string without '='
\* removes the name
putenv(env, s) ==
  {e \in env : NameOf(e) # NameOf(s)}
    \cup (IF \E k \in 1..Len(s) : s[k] = EQUALS THEN {s} ELSE {})

\* putenv of the strings strs[k], strs[k+1], ... in order
RECURSIVE PutAll(_, _, _)
PutAll(env, strs, k) ==
  IF k > Len(strs) THEN env ELSE PutAll(putenv(env, strs[k]), strs, k + 1)

\* what fstat and read on the opened segment can do
ReadIOs == {"ok", "fstat_failed", "read_failed"}

\* memory behind a heap buffer: nothing that can be read, a zero, or a
\* string left by an earlier allocation
Beyonds == {<<>>, <<NUL>>, <<103, NUL, NUL, NUL, NUL, NUL>>}


(***************************************************************************)
(* State.                                                                  *)
(***************************************************************************)
VARIABLES
  world,                  \* files, class paths and attach socket of the process
  proc,                   \* the process's descriptor table: slot -> description
  ofd_flags,              \* F_GETFL value of every open-file description
  CRaCCheckpointTo,       \* -XX:CRaCCheckpointTo, NULL when not given
  CRDoThrowCheckpointException,
  CRAllowToSkipCheckpoint,
  CRHeapDumpOnCheckpointException,
  _crengine,              \* path computed by compute_crengine, or NULL
  _vm_inited_fds,         \* baseline table taken by vm_create_start
  _persistent_resources,  \* the persistent-resource registry
  _restore_start_time,
  _restore_start_counter,
  Heap_lock,              \* owner of Heap_lock, 0 when free
  perf,                   \* "mapped" or "file": where PerfMemory lives
  shm,                    \* the named segments /crac_<id>
  environ,                \* entries installed by putenv
  now,                    \* wall clock
  pc,                     \* position of each thread in os::Linux::checkpoint
  _dry_run, _ok, _failures, _restore_parameters, _ostream, _attach_op,  \* VM_Crac fields
  ok, shmid, fds,         \* locals of VM_Crac::doit
  ret,                    \* bundle returned by ret_cr
  hist,                   \* what each attempt has done so far, in order
  dereg,                  \* the running deregister_persistent_fd call, if any
  regop,                  \* the last register or deregister call and what it did
  reg_inputs,             \* which calls the embedding code makes: see RegArgs
  reg_call,               \* the register_persistent_fd call each caller is in, if any
  registered,             \* descriptor numbers whose register call has returned
  restorer,               \* the process that runs os::Linux::restore
  restore_inputs,         \* which restoring processes there may be: see RestoreInputs
  sig_at,                 \* wall clock when the attempt's restore signal was received
  at_entry,               \* the process-wide restore time and counter when doit began
  seen,                   \* what read_shm found in the segment it was pointed at
  collected               \* the registry and the descriptions' flags when doit began

flagvars == <<CRaCCheckpointTo, CRDoThrowCheckpointException, CRAllowToSkipCheckpoint,
              CRHeapDumpOnCheckpointException, _crengine>>
procvars == <<world, proc, ofd_flags, _vm_inited_fds>>
opvars == <<_dry_run, _ok, _failures, _restore_parameters, _ostream, _attach_op>>
localvars == <<ok, shmid, fds>>
timevars == <<_restore_start_time, _restore_start_counter>>
chanvars == <<restorer, restore_inputs>>
regvars == <<dereg, regop, reg_inputs, reg_call, registered>>
ghostvars == <<sig_at, at_entry, seen, collected>>
vars == <<flagvars, procvars, opvars, localvars, timevars, _persistent_resources,
          Heap_lock, perf, shm, environ, now, pc, ret, hist, chanvars, regvars, ghostvars>>

NoSegment == [exists |-> FALSE, bytes |-> <<>>]

\* a restoring process: its system properties, environment and command
\* line, and whether write() on the segment can fail for it
RestoreInput(props, env, args, may_fail) ==
  [props |-> props, env |-> env, args |-> args, may_fail |-> may_fail]

NoInput == RestoreInput(<<>>, <<>>, <<>>, FALSE)

\* nothing at all, or the property k=v, the entry H=r and the command M
NewParams ==
  {RestoreInput(<<>>, <<>>, <<>>, TRUE),
   RestoreInput(<<[key |-> <<107>>, value |-> <<118>>]>>, <<(<<72, EQUALS, 114>>)>>,
                <<77>>, TRUE)}

\* all sequences of at most n elements of S
SeqsUpTo(S, n) == UNION {[1..k -> S] : k \in 0..n}

\* the restoring processes of the channel specification: up to MaxProps
\* of the properties k=v and a= (empty value), up to MaxEnv of the entries
\* H=r and X= (each name once), and the command line "", M or M x; their
\* writes do not fail
ChanParams ==
  {RestoreInput(p, e, a, FALSE) :
     p \in SeqsUpTo({[key |-> <<107>>, value |-> <<118>>], [key |-> <<97>>, value |-> <<>>]},
                    MaxProps),
     e \in {s \in SeqsUpTo({<<72, EQUALS, 114>>, <<88, EQUALS>>}, MaxEnv) :
              \A i, j \in 1..Len(s) : s[i] = s[j] => i = j},
     a \in {<<>>, <<77>>, <<77, 32, 120>>}}

\* the restoring processes a specification considers, by name
RestoreInputs(name) ==
  CASE name = "NewParams" -> NewParams
    [] name = "ChanParams" -> ChanParams
    [] OTHER -> {NoInput}

\* the restoring process before os::Linux::restore has run; w is what its
\* writes did
NoRestorer ==
  [state |-> "none", id |-> 0, opened |-> FALSE, wrote |-> FALSE, CRAC_NEW_ARGS_ID |-> 0,
   w |-> [at |-> 0, wret |-> 0],
   params |-> NoInput,
   restore_time |-> 0, restore_counter |-> 0]

\* no deregister_persistent_fd call is running
NoDeregister == [state |-> "idle", arg |-> PersistentResourceDesc(0, 0, 0), i |-> 0,
                 stuck |-> FALSE]

\* threads of the embedding code that call register_persistent_fd
Callers == {"A", "B"}

\* the caller is not inside register_persistent_fd
NoRegister == [state |-> "idle", arg |-> PersistentResourceDesc(0, 0, 0), i |-> 0, dup |-> -1]

\* no register or deregister call yet
NoRegOp == [op |-> "none", call |-> 0, arg |-> PersistentResourceDesc(0, 0, 0),
            present |-> FALSE, returned |-> FALSE]

\* nothing read yet
NotSeen == [case |-> "none", bytes |-> <<>>, put |-> <<>>, after_props |-> 0, after_env |-> 0]

NoParameters == [args |-> NullStr, properties |-> <<>>]

NoRet == [code |-> "not returned", new_args |-> NullStr, new_props |-> <<>>,
          err_codes |-> <<>>, err_msgs |-> <<>>]

\* ret_cr
ret_cr(code, new_args, new_props, err_codes, err_msgs) ==
  [code |-> code, new_args |-> new_args, new_props |-> new_props,
   err_codes |-> err_codes, err_msgs |-> err_msgs]

\* os::Linux::vm_create_start: the baseline, and the descriptions' flags after it
BaselineOf(w, to) ==
  IF to = NULL
  THEN [fds |-> NotInited, fl |-> w.flags]
  ELSE FdsInfo_initialize(SlotsOf(w.base), w.file, w.flags, OpenMax, NoStat)

InitWith(ws, threads) ==
  /\ world \in ws
  /\ proc = SlotsOf(world.cur)
  /\ CRaCCheckpointTo \in {NULL, "cr"}
  /\ CRDoThrowCheckpointException \in BOOLEAN
  /\ CRAllowToSkipCheckpoint \in BOOLEAN
  /\ CRHeapDumpOnCheckpointException \in BOOLEAN
  /\ _crengine \in {NULL, "criuengine"}
  /\ _vm_inited_fds = BaselineOf(world, CRaCCheckpointTo).fds
  /\ ofd_flags = BaselineOf(world, CRaCCheckpointTo).fl
  /\ _persistent_resources =
       IF world.registry = <<>> \/ CRaCCheckpointTo = NULL
       THEN NullRegistry ELSE Registry(world.registry)
  /\ _restore_start_time = 0
  /\ _restore_start_counter = 0
  /\ Heap_lock = 0
  /\ perf = "mapped"
  /\ shm = [id \in ShmIds |-> NoSegment]
  /\ environ = {}
  /\ now = 1
  /\ pc = [t \in Threads |-> IF t \in threads THEN "idle" ELSE "absent"]
  /\ _dry_run = [t \in Threads |-> FALSE]
  /\ _ok = [t \in Threads |-> FALSE]
  /\ _failures = [t \in Threads |-> <<>>]
  /\ _restore_parameters = [t \in Threads |-> NoParameters]
  /\ _ostream = [t \in Threads |-> "tty"]
  /\ _attach_op = [t \in Threads |-> NoFd]
  /\ ok = [t \in Threads |-> FALSE]
  /\ shmid = [t \in Threads |-> 0]
  /\ fds = [t \in Threads |-> NotInited]
  /\ ret = [t \in Threads |-> NoRet]
  /\ hist = [t \in Threads |-> <<>>]
  /\ restorer = NoRestorer
  /\ sig_at = [t \in Threads |-> 0]
  /\ at_entry = [t \in Threads |-> <<0, 0>>]
  /\ seen = [t \in Threads |-> NotSeen]
  /\ collected = [t \in Threads |-> [registry |-> NullRegistry, flags |-> <<>>]]
  /\ dereg = NoDeregister
  /\ regop = NoRegOp
  /\ reg_call = [c \in Callers |-> NoRegister]
  /\ registered = {}

Init == InitWith(Worlds, {1}) /\ restore_inputs = "NewParams" /\ reg_inputs = "none"

Did(t, evs) == hist' = [hist EXCEPT ![t] = @ \o evs]

(***************************************************************************)
(* os::Linux::checkpoint up to the VM operation.                           *)
(***************************************************************************)
\* lines 6439-6452: the early returns, the heap collection and the
\* construction of VM_Crac
Call(t) ==
  /\ pc[t] = "idle"
  /\ \E dry_run \in BOOLEAN, jcmd \in BOOLEAN, mkdir_ok \in BOOLEAN :
       /\ jcmd => /\ world.attach # NoFd
                   /\ proc[world.attach] # NoFd
                   /\ world.file[proc[world.attach]].type = "S_IFSOCK"
       /\ IF CRaCCheckpointTo = NULL \/ ~mkdir_ok
          THEN /\ ret' = [ret EXCEPT ![t] =
                            ret_cr("JVM_CHECKPOINT_NONE", NullStr, <<>>, <<>>, <<>>)]
               /\ pc' = [pc EXCEPT ![t] = "done"]
               /\ UNCHANGED opvars
          ELSE /\ _dry_run' = [_dry_run EXCEPT ![t] = dry_run]
               /\ _ok' = [_ok EXCEPT ![t] = FALSE]
               /\ _failures' = [_failures EXCEPT ![t] = <<>>]
               /\ _restore_parameters' = [_restore_parameters EXCEPT ![t] = NoParameters]
               /\ _ostream' = [_ostream EXCEPT ![t] = IF jcmd THEN "jcmd" ELSE "tty"]
               /\ _attach_op' = [_attach_op EXCEPT ![t] = IF jcmd THEN world.attach ELSE NoFd]
               /\ pc' = [pc EXCEPT ![t] = "lock"]
               /\ UNCHANGED ret
  /\ UNCHANGED <<flagvars, procvars, localvars, timevars, _persistent_resources,
                 Heap_lock, perf, shm, environ, now, hist, chanvars, regvars, ghostvars>>

\* faulty variant: the VM operation is executed without taking Heap_lock
AcquireHeapLock_NoWait(t) ==
  /\ pc[t] = "lock"
  /\ Heap_lock' = t
  /\ pc' = [pc EXCEPT ![t] = "doit"]
  /\ UNCHANGED <<flagvars, procvars, opvars, localvars, timevars, _persistent_resources,
                 perf, shm, environ, now, ret, hist, chanvars, regvars, ghostvars>>

\* MutexLocker ml(Heap_lock): blocks while another thread owns the lock
AcquireHeapLock(t) ==
  /\ pc[t] = "lock"
  /\ Heap_lock = 0
  /\ Heap_lock' = t
  /\ pc' = [pc EXCEPT ![t] = "doit"]
  /\ UNCHANGED <<flagvars, procvars, opvars, localvars, timevars, _persistent_resources,
                 perf, shm, environ, now, ret, hist, chanvars, regvars, ghostvars>>

(***************************************************************************)
(* VM_Crac::doit, executed by VMThread::execute while t holds Heap_lock.   *)
(***************************************************************************)
\* the safepoint of a VM operation begins when no thread is inside a call
\* that changes the registry
SafepointReached == dereg.state = "idle"

\* the whole process ends: a fault, a failed assert or an allocation failure
Crashed == [u \in Threads |-> IF pc[u] = "absent" THEN "absent" ELSE "crashed"]

\* what sysconf(_SC_OPEN_MAX) returns: the limit, or -1 when the limit
\* cannot be told
SysconfResults == {OpenMax, -1}

\* lines 5890-5891 with max_fd = -1: NEW_C_HEAP_ARRAY(fdinfo, max_fd) asks
\* for (size_t)-1 * sizeof(fdinfo) bytes, which no allocator can give, and
\* a failed NEW_C_HEAP_ARRAY ends the VM
SysconfFailed(t) ==
  /\ pc' = Crashed
  /\ Did(t, <<"sysconf_failed", "vm_exit_out_of_memory">>)

\* the elements of the three class paths
PathElements(w) ==
  {w.syscp[k] : k \in 1..Len(w.syscp)} \cup {w.appcp[k] : k \in 1..Len(w.appcp)}
    \cup {w.extdirs[k] : k \in 1..Len(w.extdirs)}

\* what the stat buffer of a closed slot can hold.  The block comes from
\* NEW_C_HEAP_ARRAY uninitialised and a failed fstat leaves it alone, so it
\* holds what an earlier user of the memory left: in particular the stat of
\* a file that was open in an earlier table.  Contents that equal no class
\* path element behave alike and are represented by NoStat.
StaleStats(w) ==
  {NoStat} \cup
  {w.file[o] : o \in {x \in 1..Len(w.file) :
                        \E e \in PathElements(w) :
                          e.exists /\ e.dev = w.file[x].dev /\ e.ino = w.file[x].ino}}

\* mark was called for a CLOSED record of the table
MarkedClosed(f) ==
  \E i \in 0..(f.len - 1) : f.info[i].state = CLOSED /\ f.info[i].mark # {}

\* assert_mark with assertions compiled in: the VM ends
AssertMarkFailed(t) ==
  /\ pc' = Crashed
  /\ Did(t, <<"mark_closed_slot", "vm_crash">>)

\* lines 6256-6260: FdsInfo fds, the class path passes and mark_persistent.
\* asserts tells whether the build has assertions compiled in.
Collect(t) ==
  /\ pc[t] = "doit"
  /\ SafepointReached
  /\ \E max_fd \in SysconfResults :
       IF max_fd < 0
       THEN /\ SysconfFailed(t)
            /\ UNCHANGED <<fds, ofd_flags, _persistent_resources, at_entry, collected>>
       ELSE \E junk \in StaleStats(world), asserts \in BOOLEAN :
              LET c == FdsInfo_initialize(proc, world.file, ofd_flags, max_fd, junk)
                  m1 == do_classpaths(FALSE, c.fds, world.syscp)
                  m2 == do_classpaths(FALSE, m1, world.appcp)
                  m3 == do_classpaths(TRUE, m2, world.extdirs)
              IN IF MarkedClosed(m3) /\ asserts
                 THEN /\ AssertMarkFailed(t)
                      /\ ofd_flags' = c.fl
                      /\ UNCHANGED <<fds, _persistent_resources, at_entry, collected>>
                 ELSE /\ fds' = [fds EXCEPT ![t] = mark_persistent(m3, _persistent_resources)]
                      /\ ofd_flags' = c.fl
                      /\ _persistent_resources' = NullRegistry
                      /\ pc' = [pc EXCEPT ![t] = "evaluate"]
                      /\ Did(t, IF MarkedClosed(m3) THEN <<"mark_closed_slot", "collect">>
                                ELSE <<"collect">>)
                      /\ at_entry' = [at_entry EXCEPT ![t] =
                                        <<_restore_start_time, _restore_start_counter>>]
                      /\ collected' = [collected EXCEPT ![t] =
                                         [registry |-> _persistent_resources,
                                          flags |-> ofd_flags]]
  /\ UNCHANGED <<flagvars, world, proc, _vm_inited_fds, opvars, ok, shmid, timevars,
                 Heap_lock, perf, shm, environ, now, ret, chanvars, regvars, sig_at, seen>>

\* faulty variant: the policy abort is never taken
PolicyAbort_Never(okv) == FALSE

\* faulty variant: the policy abort ignores CRDoThrowCheckpointException
PolicyAbort_IgnoresFlag(okv) == ~okv

\* if (!ok && CRDoThrowCheckpointException) return;
PolicyAbort(okv) == ~okv /\ CRDoThrowCheckpointException

\* lines 6262-6322: the decision loop, the heap dump and the policy abort
Evaluate(t) ==
  /\ pc[t] = "evaluate"
  /\ LET e == Evaluation(fds[t], _vm_inited_fds, _attach_op[t], _dry_run[t])
         dump == IF ~e.ok /\ CRHeapDumpOnCheckpointException THEN <<"heap_dump">> ELSE <<>>
     IN /\ ok' = [ok EXCEPT ![t] = e.ok]
        /\ _failures' = [_failures EXCEPT ![t] = e.failures]
        /\ IF PolicyAbort(e.ok)
           THEN /\ pc' = [pc EXCEPT ![t] = "unlock"]
                /\ Did(t, <<"evaluate">> \o dump \o <<"abort">>)
           ELSE /\ pc' = [pc EXCEPT ![t] = "persist"]
                /\ Did(t, <<"evaluate">> \o dump)
  /\ UNCHANGED <<flagvars, procvars, _dry_run, _ok, _restore_parameters, _ostream,
                 _attach_op, shmid, fds, timevars, _persistent_resources,
                 Heap_lock, perf, shm, environ, now, ret, chanvars, regvars, ghostvars>>

\* lines 6324-6333: PerfMemoryLinux::checkpoint, then the choice between
\* skipping the checkpoint and calling the engine
Persist(t) ==
  /\ pc[t] = "persist"
  /\ \E persisted \in BOOLEAN :
       IF ~persisted
       THEN /\ pc' = [pc EXCEPT ![t] = "unlock"]
            /\ Did(t, <<"persist_failed">>)
            /\ UNCHANGED <<perf, shmid>>
       ELSE /\ perf' = "file"
            /\ shmid' = [shmid EXCEPT ![t] = 0]
            /\ IF CRAllowToSkipCheckpoint
               THEN /\ pc' = [pc EXCEPT ![t] = "finish"]
                    /\ Did(t, <<"persist", "skip_checkpoint">>)
               ELSE /\ pc' = [pc EXCEPT ![t] = "engine"]
                    /\ Did(t, <<"persist">>)
  /\ UNCHANGED <<flagvars, procvars, opvars, ok, fds, timevars, _persistent_resources,
                 Heap_lock, shm, environ, now, ret, chanvars, regvars, ghostvars>>

\* faulty variant: PerfMemory is left in the file
PerfRestore_Forgotten == perf' = perf

\* PerfMemoryLinux::restore
PerfRestore == perf' = "mapped"

\* faulty variant: the test for a jcmd operation is missing
ReportOk_NoNullTest(t) == <<"report_ok">>

\* report_ok_to_jcmd_if_any
ReportOk(t) ==
  IF _attach_op[t] = NoFd THEN <<>> ELSE <<"report_ok">>

\* lines 6333-6338 with checkpoint_restore lines 6091-6094: the engine is
\* forked and waited for; on failure PerfMemory is restored and doit returns
InvokeEngine(t) ==
  /\ pc[t] = "engine"
  /\ _ostream' = [_ostream EXCEPT ![t] = IF _attach_op[t] = NoFd THEN @ ELSE "tty"]
  /\ \E o \in EngineOutcomes :
       IF call_crengine(_crengine, o) < 0
       THEN /\ PerfRestore
            /\ pc' = [pc EXCEPT ![t] = "unlock"]
            /\ Did(t, ReportOk(t) \o <<"call_crengine", EngineEvent(_crengine, o), "perf_restore">>)
            /\ UNCHANGED restorer
       ELSE /\ pc' = [pc EXCEPT ![t] = "sigwait"]
            /\ Did(t, ReportOk(t) \o <<"call_crengine", EngineEvent(_crengine, o), "sigwait">>)
            /\ restorer' = NoRestorer
            /\ UNCHANGED perf
  /\ UNCHANGED <<flagvars, procvars, _dry_run, _ok, _failures, _restore_parameters,
                 _attach_op, localvars, timevars, _persistent_resources,
                 Heap_lock, shm, environ, now, ret, restore_inputs, regvars, ghostvars>>

\* os::Linux::restore in the restoring process, started while an attempt
\* waits for the restore signal: the clocks are read, the segment
\* /crac_<id> is opened or created, the parameter block is written to it,
\* CRAC_NEW_ARGS_ID is set when write_to succeeded, and the engine is
\* executed with "restore"
RestoreProcess ==
  /\ \E t \in Threads : pc[t] = "sigwait"
  /\ restorer.state = "none"
  /\ \E id \in ShmIds \ {0}, np \in RestoreInputs(restore_inputs), opened \in BOOLEAN :
       LET restore_time == javaTimeMillis(now)
           restore_counter == javaTimeNanos(now)
       IN \E w \in WriteOutcomes(WriteBuffers(np.props, np.env, np.args,
                                              restore_time, restore_counter)) :
            LET r == write_to(np.props, np.env, np.args, restore_time, restore_counter, w)
            IN /\ (~opened \/ ~np.may_fail) => w.at = 0
               /\ shm' = IF opened
                         THEN [shm EXCEPT ![id] =
                                 [exists |-> TRUE, bytes |-> Overwrite(@.bytes, r.bytes)]]
                         ELSE shm
               /\ restorer' =
                    [state |-> "execed", id |-> id, opened |-> opened,
                     wrote |-> opened /\ r.ret,
                     CRAC_NEW_ARGS_ID |-> IF opened /\ r.ret THEN id
                                          ELSE restorer.CRAC_NEW_ARGS_ID,
                     w |-> w, params |-> np,
                     restore_time |-> restore_time, restore_counter |-> restore_counter]
  /\ UNCHANGED <<flagvars, procvars, opvars, localvars, timevars, _persistent_resources,
                 Heap_lock, perf, environ, now, pc, ret, hist, restore_inputs, regvars, ghostvars>>

\* checkpoint_restore lines 6096-6124 and doit lines 6335-6338: sigwaitinfo
\* returns the restore signal with siginfo info
SigWait(t) ==
  /\ pc[t] = "sigwait"
  /\ \E info \in SigInfos :
       IF InvalidInfo(info)
       THEN /\ PerfRestore
            /\ pc' = [pc EXCEPT ![t] = "unlock"]
            /\ Did(t, <<SignalEvent(info), "perf_restore">>)
            /\ UNCHANGED shmid
       ELSE /\ shmid' = [shmid EXCEPT ![t] = IF 0 < info.si_int THEN info.si_int ELSE @]
            /\ pc' = [pc EXCEPT ![t] = "finish"]
            /\ Did(t, <<SignalEvent(info)>>)
            /\ UNCHANGED perf
  /\ sig_at' = [sig_at EXCEPT ![t] = now]
  /\ UNCHANGED <<flagvars, procvars, opvars, ok, fds, timevars, _persistent_resources,
                 Heap_lock, shm, environ, now, ret, chanvars, regvars, at_entry, seen, collected>>

\* checkpoint_restore lines 6102-6104: sigwaitinfo is interrupted by another
\* signal's handler and returns -1 with EINTR; the loop calls it again.  The
\* model lets that happen once per attempt.
SigWaitInterrupted(t) ==
  /\ pc[t] = "sigwait"
  /\ \A k \in 1..Len(hist[t]) : hist[t][k] # "sigwait_eintr"
  /\ Did(t, <<"sigwait_eintr">>)
  /\ UNCHANGED <<flagvars, procvars, opvars, localvars, timevars, _persistent_resources,
                 Heap_lock, perf, shm, environ, now, pc, ret, chanvars, regvars, ghostvars>>

\* VM_Crac::read_shm on the segment seg (which it unlinks): read_from on
\* its cells when it could be opened
read_shm(seg, io, beyond, asserts) ==
  IF ~seg.exists THEN ReadFailed ELSE read_from(seg.bytes, io, beyond, asserts)

\* faulty variant: read_shm is also called for id 0
TryReadShm_AlsoZero(id) == ~(id < 0)

\* the first operand of "shmid <= 0 || !VM_Crac::read_shm(shmid)": whether
\* read_shm is called at all
TryReadShm(id) == ~(id <= 0)

\* faulty variant: the clocks are read although the block was read
ClocksFromBlock_Never(r) == FALSE

\* the second operand: whether the restore time and counter of the block's
\* header stand
ClocksFromBlock(r) == r.ret

\* doit lines 6341-6347: the restore parameters or the current time, then
\* PerfMemoryLinux::restore and _ok = true
Finish(t) ==
  /\ pc[t] = "finish"
  /\ \E io \in ReadIOs, beyond \in Beyonds, asserts \in BOOLEAN :
       IF ~TryReadShm(shmid[t])
       THEN /\ _restore_start_time' = javaTimeMillis(now)
            /\ _restore_start_counter' = javaTimeNanos(now)
            /\ Did(t, <<"perf_restore", "restored">>)
            /\ PerfRestore
            /\ _ok' = [_ok EXCEPT ![t] = TRUE]
            /\ pc' = [pc EXCEPT ![t] = "unlock"]
            /\ UNCHANGED <<shm, environ, _restore_parameters, seen>>
       ELSE LET seg == shm[shmid[t]]
                r == read_shm(seg, io, beyond, asserts)
            IN /\ shm' = [shm EXCEPT ![shmid[t]] = NoSegment]
               /\ seen' = [seen EXCEPT ![t] =
                             [case |-> IF seg.exists THEN io ELSE "no_segment",
                              bytes |-> seg.bytes, put |-> r.envs,
                              after_props |-> r.after_props, after_env |-> r.after_env]]
               /\ IF r.fault
                  THEN /\ pc' = Crashed
                       /\ Did(t, <<"shm_open", "shm_unlink", "vm_crash">>)
                       /\ UNCHANGED <<environ, _restore_parameters, timevars, perf, _ok>>
                  ELSE /\ environ' = PutAll(environ, r.envs, 1)
                       /\ _restore_parameters' =
                            IF r.ret
                            THEN [_restore_parameters EXCEPT ![t] =
                                    [args |-> r.args, properties |-> r.properties]]
                            ELSE _restore_parameters
                       /\ _restore_start_time' =
                            IF ClocksFromBlock(r) THEN r.time ELSE javaTimeMillis(now)
                       /\ _restore_start_counter' =
                            IF ClocksFromBlock(r) THEN r.counter ELSE javaTimeNanos(now)
                       /\ Did(t, <<"shm_open", "shm_unlink">>
                                   \o (IF r.ret THEN <<"shm_read">> ELSE <<>>)
                                   \o <<"perf_restore", "restored">>)
                       /\ PerfRestore
                       /\ _ok' = [_ok EXCEPT ![t] = TRUE]
                       /\ pc' = [pc EXCEPT ![t] = "unlock"]
  /\ UNCHANGED <<flagvars, procvars, _dry_run, _failures, _ostream, _attach_op,
                 localvars, _persistent_resources, Heap_lock, now, ret, chanvars,
                 regvars, sig_at, at_entry, collected>>

(***************************************************************************)
(* os::Linux::checkpoint after the VM operation.                           *)
(***************************************************************************)
\* end of the MutexLocker scope
ReleaseHeapLock(t) ==
  /\ pc[t] = "unlock"
  /\ Heap_lock' = 0
  /\ pc' = [pc EXCEPT ![t] = "result"]
  /\ UNCHANGED <<flagvars, procvars, opvars, localvars, timevars, _persistent_resources,
                 perf, shm, environ, now, ret, hist, chanvars, regvars, ghostvars>>

\* lines 6457-6487: the bundle returned to the caller.  Building the Java
\* string of the new arguments reads them; a pointer behind the memory that
\* can be read ends the process.
Result(t) ==
  /\ pc[t] = "result"
  /\ IF _ok[t] /\ _restore_parameters[t].args = WildStr
     THEN /\ pc' = Crashed
          /\ Did(t, <<"vm_crash">>)
          /\ UNCHANGED ret
     ELSE /\ ret' = [ret EXCEPT ![t] =
               IF _ok[t]
               THEN ret_cr("JVM_CHECKPOINT_OK", _restore_parameters[t].args,
                           _restore_parameters[t].properties, <<>>, <<>>)
               ELSE ret_cr("JVM_CHECKPOINT_ERROR", NullStr, <<>>,
                           [k \in 1..Len(_failures[t]) |-> _failures[t][k].type],
                           [k \in 1..Len(_failures[t]) |-> _failures[t][k].msg])]
          /\ pc' = [pc EXCEPT ![t] = "done"]
          /\ UNCHANGED hist
  /\ UNCHANGED <<flagvars, procvars, opvars, localvars, timevars, _persistent_resources,
                 Heap_lock, perf, shm, environ, now, chanvars, regvars, ghostvars>>

(***************************************************************************)
(* The registry calls of the embedding code.  They come through VM entry   *)
(* points, so none runs while the VM operation is at its safepoint.  The   *)
(* three actions below take the calls one at a time; RegisterBegin and     *)
(* RegisterEnd further down are the calls of concurrent threads.           *)
(***************************************************************************)
\* faulty variant: registry calls are not held back by the safepoint
AtSafepoint_Never == FALSE

AtSafepoint ==
  \E t \in Threads : pc[t] \in {"evaluate", "persist", "engine", "sigwait", "finish"}

\* os::Linux::register_persistent_fd
Register ==
  /\ ~AtSafepoint /\ dereg.state = "idle"
  /\ \E a \in RegArgs(reg_inputs) :
       /\ _persistent_resources' =
            register_persistent_fd(_persistent_resources, CRaCCheckpointTo, a.fd, a.dev, a.ino)
       /\ regop' = [op |-> "register", call |-> 1 - regop.call, arg |-> a,
                    present |-> \E k \in 1..Len(_persistent_resources.list) :
                                  _persistent_resources.list[k].fd = a.fd,
                    returned |-> TRUE]
  /\ UNCHANGED <<flagvars, procvars, opvars, localvars, timevars, Heap_lock, perf, shm,
                 environ, now, pc, ret, hist, chanvars, dereg, reg_inputs, reg_call, registered,
                 ghostvars>>

\* os::Linux::deregister_persistent_fd up to its loop: the two early returns
Deregister ==
  /\ ~AtSafepoint /\ dereg.state = "idle"
  /\ \E a \in RegArgs(reg_inputs) :
       LET op == [op |-> "deregister", call |-> 1 - regop.call, arg |-> a,
                  present |-> \E k \in 1..Len(_persistent_resources.list) :
                                DeregisterMatch(_persistent_resources.list[k],
                                                a.fd, a.dev, a.ino),
                  returned |-> FALSE]
       IN IF CRaCCheckpointTo = NULL \/ _persistent_resources.isnull
          THEN /\ regop' = [op EXCEPT !.returned = TRUE]
               /\ UNCHANGED dereg
          ELSE /\ regop' = op
               /\ dereg' = [state |-> "loop", arg |-> a, i |-> 0, stuck |-> FALSE]
  /\ UNCHANGED <<flagvars, procvars, opvars, localvars, timevars, _persistent_resources,
                 Heap_lock, perf, shm, environ, now, pc, ret, hist, chanvars, reg_inputs,
                 reg_call, registered, ghostvars>>

\* one evaluation of the loop condition of deregister_persistent_fd and,
\* when the loop ends, the removal and the return.  The loop body does not
\* advance i: an entry at i that does not match leaves the loop where it was.
DeregisterStep ==
  /\ ~AtSafepoint /\ dereg.state = "loop"
  /\ LET list == _persistent_resources.list
         i == dereg.i
         a == dereg.arg
     IN IF i < Len(list) /\ ~DeregisterMatch(list[i + 1], a.fd, a.dev, a.ino)
        THEN /\ dereg' = [dereg EXCEPT !.stuck = TRUE]
             /\ UNCHANGED <<_persistent_resources, regop>>
        ELSE /\ _persistent_resources' =
                  IF i < Len(list)
                  THEN [_persistent_resources EXCEPT !.list = remove_at(list, i)]
                  ELSE _persistent_resources
             /\ dereg' = NoDeregister
             /\ regop' = [regop EXCEPT !.returned = TRUE]
  /\ UNCHANGED <<flagvars, procvars, opvars, localvars, timevars,
                 Heap_lock, perf, shm, environ, now, pc, ret, hist, chanvars, reg_inputs,
                 reg_call, registered, ghostvars>>

(***************************************************************************)
(* register_persistent_fd called by several threads at once.  The function *)
(* takes no lock: between the loop that finds the place and the statement  *)
(* that stores the entry, another caller's steps can run.                  *)
(***************************************************************************)
\* lines 6351-6368: the early return, the creation of the registry and the
\* loop that sets dup and i
RegisterBegin(c) ==
  /\ ~AtSafepoint
  /\ reg_call[c].state = "idle"
  /\ \E a \in RegArgs(reg_inputs) :
       IF CRaCCheckpointTo = NULL
       THEN UNCHANGED <<_persistent_resources, reg_call>>
       ELSE LET s == RegisterScan(_persistent_resources.list, a.fd, 0)
            IN /\ _persistent_resources' = Registry(_persistent_resources.list)
               /\ reg_call' = [reg_call EXCEPT
                                 ![c] = [state |-> "scanned", arg |-> a, i |-> s.i,
                                         dup |-> s.dup]]
  /\ UNCHANGED <<flagvars, procvars, opvars, localvars, timevars, Heap_lock, perf, shm,
                 environ, now, pc, ret, hist, chanvars, dereg, regop, reg_inputs,
                 registered, ghostvars>>

\* lines 6370-6375: at_put or insert_before with the dup and i of the loop,
\* and the return
RegisterEnd(c) ==
  /\ ~AtSafepoint
  /\ reg_call[c].state = "scanned"
  /\ LET r == reg_call[c]
         list == _persistent_resources.list
     IN /\ 0 <= r.dup \/ Len(list) < MaxRegistry
        /\ _persistent_resources' =
             Registry(IF 0 <= r.dup THEN at_put(list, r.dup, r.arg)
                      ELSE insert_before(list, r.i, r.arg))
        /\ registered' = registered \cup {r.arg.fd}
  /\ reg_call' = [reg_call EXCEPT ![c] = NoRegister]
  /\ UNCHANGED <<flagvars, procvars, opvars, localvars, timevars, Heap_lock, perf, shm,
                 environ, now, pc, ret, hist, chanvars, dereg, regop, reg_inputs,
                 ghostvars>>

(***************************************************************************)
(* The application's descriptor calls before a checkpoint is requested.    *)
(* No descriptor is opened or closed while an attempt runs.                *)
(***************************************************************************)
NoAttempt == \A t \in Threads : pc[t] \in {"idle", "absent"}

AppFds == 0..(AppFdMax - 1)

\* open(2) of description o, which no descriptor refers to: the lowest free
\* descriptor number
AppOpen ==
  /\ NoAttempt
  /\ \E o \in 1..Len(world.file), fd \in AppFds :
       /\ \A i \in Slots : proc[i] # o
       /\ proc[fd] = NoFd /\ \A i \in 0..(fd - 1) : proc[i] # NoFd
       /\ proc' = [proc EXCEPT ![fd] = o]
       /\ ofd_flags' = [ofd_flags EXCEPT ![o] = world.flags[o]]
  /\ UNCHANGED <<flagvars, world, _vm_inited_fds, opvars, localvars, timevars,
                 _persistent_resources, Heap_lock, perf, shm, environ, now, pc, ret, hist,
                 chanvars, regvars, ghostvars>>

\* dup2(fd, to) on a free descriptor number to
AppDup ==
  /\ NoAttempt
  /\ \E fd \in AppFds, to \in AppFds :
       /\ proc[fd] # NoFd /\ proc[to] = NoFd
       /\ proc' = [proc EXCEPT ![to] = proc[fd]]
  /\ UNCHANGED <<flagvars, world, ofd_flags, _vm_inited_fds, opvars, localvars, timevars,
                 _persistent_resources, Heap_lock, perf, shm, environ, now, pc, ret, hist,
                 chanvars, regvars, ghostvars>>

\* close(fd)
AppClose ==
  /\ NoAttempt
  /\ \E fd \in AppFds :
       /\ proc[fd] # NoFd
       /\ proc' = [proc EXCEPT ![fd] = NoFd]
  /\ UNCHANGED <<flagvars, world, ofd_flags, _vm_inited_fds, opvars, localvars, timevars,
                 _persistent_resources, Heap_lock, perf, shm, environ, now, pc, ret, hist,
                 chanvars, regvars, ghostvars>>

\* time passes
Tick ==
  /\ now < MaxTime
  /\ now' = now + 1
  /\ UNCHANGED <<flagvars, procvars, opvars, localvars, timevars, _persistent_resources,
                 Heap_lock, perf, shm, environ, pc, ret, hist, chanvars, regvars, ghostvars>>

Next ==
  \/ \E t \in Threads :
       \/ Call(t) \/ AcquireHeapLock(t) \/ Collect(t) \/ Evaluate(t) \/ Persist(t)
       \/ InvokeEngine(t) \/ SigWait(t) \/ Finish(t) \/ ReleaseHeapLock(t) \/ Result(t)
  \/ RestoreProcess
  \/ Tick

Spec == Init /\ [][Next]_vars

\* two threads call checkpoint concurrently on one configuration
InitConc ==
  /\ InitWith({WorldA}, Threads)
  /\ restore_inputs = "NoInput"
  /\ reg_inputs = "none"
  /\ CRaCCheckpointTo # NULL
  /\ _crengine # NULL
  /\ ~CRHeapDumpOnCheckpointException

SpecConc == InitConc /\ [][Next]_vars

\* one caller, nothing that blocks, and every restoring process of ChanParams
InitChan ==
  /\ InitWith({WorldClean}, {1})
  /\ restore_inputs = "ChanParams"
  /\ reg_inputs = "none"
  /\ CRaCCheckpointTo # NULL
  /\ _crengine # NULL
  /\ ~CRDoThrowCheckpointException
  /\ ~CRAllowToSkipCheckpoint
  /\ ~CRHeapDumpOnCheckpointException

SpecChan == InitChan /\ [][Next]_vars

\* The registry specifications.  CRDoThrowCheckpointException is set and
\* WorldC holds a descriptor no rule allows (descriptor 1), so every attempt
\* ends at the policy abort: the steps of doit behind it, the restoring
\* process and the clock do not occur.
Attempt(t) ==
  \/ Call(t) \/ AcquireHeapLock(t) \/ Collect(t) \/ Evaluate(t)
  \/ ReleaseHeapLock(t) \/ Result(t)

\* one caller, and the embedding code registering and deregistering
InitReg ==
  /\ InitWith({WorldC}, {1})
  /\ restore_inputs = "NoInput"
  /\ reg_inputs = "RegAll"
  /\ _crengine # NULL
  /\ CRDoThrowCheckpointException
  /\ ~CRAllowToSkipCheckpoint
  /\ ~CRHeapDumpOnCheckpointException

NextReg ==
  \/ \E t \in Threads : Attempt(t)
  \/ Register \/ Deregister \/ DeregisterStep

SpecReg == InitReg /\ [][NextReg]_vars

\* two callers, one after the other, and the embedding code registering
\* descriptors 2 and 4
InitTwice ==
  /\ InitWith({WorldC}, Threads)
  /\ restore_inputs = "NoInput"
  /\ reg_inputs = "RegFew"
  /\ CRaCCheckpointTo # NULL
  /\ _crengine # NULL
  /\ CRDoThrowCheckpointException
  /\ ~CRAllowToSkipCheckpoint
  /\ ~CRHeapDumpOnCheckpointException

NextTwice ==
  \/ \E t \in Threads : Attempt(t)
  \/ Register

SpecTwice == InitTwice /\ [][NextTwice]_vars

\* The specification with interrupted waits: one caller in every world and
\* under every flag configuration.  Nothing is assumed of the engine, of the
\* restoring process or of the sender of the signal.
NextWait ==
  \/ Next
  \/ \E t \in Threads : SigWaitInterrupted(t)

SpecWait == Init /\ [][NextWait]_vars

\* The descriptor specification: the application builds a descriptor table
\* and one caller requests a checkpoint.  No engine is configured, so an
\* attempt that passes the policy ends when call_crengine fails.
InitFds ==
  /\ InitWith({WorldD}, {1})
  /\ restore_inputs = "NoInput"
  /\ reg_inputs = "none"
  /\ CRaCCheckpointTo # NULL
  /\ _crengine = NULL
  /\ CRDoThrowCheckpointException
  /\ ~CRAllowToSkipCheckpoint
  /\ ~CRHeapDumpOnCheckpointException

NextFds ==
  \/ \E t \in Threads : Attempt(t) \/ Persist(t) \/ InvokeEngine(t)
  \/ AppOpen \/ AppDup \/ AppClose

SpecFds == InitFds /\ [][NextFds]_vars

\* The class path specification: the descriptor calls of the application in
\* a process started with two extension directories, then one attempt.
InitCp ==
  /\ InitWith({WorldE}, {1})
  /\ restore_inputs = "NoInput"
  /\ reg_inputs = "none"
  /\ CRaCCheckpointTo # NULL
  /\ _crengine = NULL
  /\ CRDoThrowCheckpointException
  /\ ~CRAllowToSkipCheckpoint
  /\ ~CRHeapDumpOnCheckpointException

SpecCp == InitCp /\ [][NextFds]_vars

\* The link target specification: the descriptor calls of the application on
\* files with and without silly-rename names, then one attempt.
InitSilly ==
  /\ InitWith({WorldF}, {1})
  /\ restore_inputs = "NoInput"
  /\ reg_inputs = "none"
  /\ CRaCCheckpointTo # NULL
  /\ _crengine = NULL
  /\ CRDoThrowCheckpointException
  /\ ~CRAllowToSkipCheckpoint
  /\ ~CRHeapDumpOnCheckpointException

SpecSilly == InitSilly /\ [][NextFds]_vars

\* The file type specification: the descriptor calls of the application on
\* files of every type, then one attempt.
InitKinds ==
  /\ InitWith({WorldG}, {1})
  /\ restore_inputs = "NoInput"
  /\ reg_inputs = "none"
  /\ CRaCCheckpointTo # NULL
  /\ _crengine = NULL
  /\ CRDoThrowCheckpointException
  /\ ~CRAllowToSkipCheckpoint
  /\ ~CRHeapDumpOnCheckpointException

SpecKinds == InitKinds /\ [][NextFds]_vars

\* stdin in the baseline; /app/persist.db open on 1 and dup'ed to 2
WorldP ==
  World(<<1>>, <<1, 2, 2>>,
        <<Tty, PersFile>>, <<2, 0>>,
        <<Modules>>, <<NoEntry>>, <<NoEntry>>,
        <<>>, NoFd)

\* The safepoint specification: the application opens and closes
\* descriptors, the embedding code registers and deregisters descriptors 2
\* and 4, and one caller requests checkpoints.
InitPark ==
  /\ InitWith({WorldP}, {1})
  /\ restore_inputs = "NoInput"
  /\ reg_inputs = "RegFew"
  /\ CRaCCheckpointTo # NULL
  /\ _crengine # NULL
  /\ CRDoThrowCheckpointException
  /\ ~CRAllowToSkipCheckpoint
  /\ ~CRHeapDumpOnCheckpointException

NextPark ==
  \/ NextReg
  \/ AppOpen \/ AppDup \/ AppClose

SpecPark == InitPark /\ [][NextPark]_vars

\* The concurrent registry specification: two threads of the embedding code
\* call register_persistent_fd, each for any of descriptors 2, 3 and 6, and
\* no checkpoint is requested.
InitRace ==
  /\ InitWith({WorldP}, {1})
  /\ restore_inputs = "NoInput"
  /\ reg_inputs = "RegAll"
  /\ CRaCCheckpointTo # NULL
  /\ _crengine # NULL
  /\ CRDoThrowCheckpointException
  /\ ~CRAllowToSkipCheckpoint
  /\ ~CRHeapDumpOnCheckpointException

NextRace == \E c \in Callers : RegisterBegin(c) \/ RegisterEnd(c)

SpecRace == InitRace /\ [][NextRace]_vars

(***************************************************************************)
(* Properties.                                                             *)
(***************************************************************************)
Has(t, e) == \E k \in 1..Len(hist[t]) : hist[t][k] = e

Count(t, e) == Cardinality({k \in 1..Len(hist[t]) : hist[t][k] = e})

\* doit has returned
Returned(t) == pc[t] \in {"unlock", "result", "done"}

\* the thread is inside VMThread::execute(&cr)
InDoit(t) == pc[t] \in {"doit", "evaluate", "persist", "engine", "sigwait", "finish", "unlock"}

EngineFailures ==
  {"no_engine", "fork_failed", "exec_failed", "wait_failed", "signaled", "engine_exit_nonzero"}

EngineFailed(t) == \E e \in EngineFailures : Has(t, e)

\* the open descriptors of the attempt's table that no rule allows
BlockingFds(t) ==
  {i \in 0..(fds[t].len - 1) :
     /\ get_state(fds[t], i, CLOSED) # CLOSED
     /\ Decide(fds[t], _vm_inited_fds, _attach_op[t], i) = "BAD: opened by application"}

\* the k-th smallest element of a set of numbers
RECURSIVE Nth(_, _)
Nth(S, k) ==
  LET m == CHOOSE x \in S : \A y \in S : x <= y
  IN IF k = 1 THEN m ELSE Nth(S \ {m}, k - 1)

\* C1: a dry-run attempt never calls the engine and never enters the restore
\* signal wait, whatever the flags; it ends after resource evaluation and the
\* caller gets the failure list.
C1_DryRunStopsAfterEvaluation ==
  \A t \in Threads :
    (_dry_run[t] /\ Has(t, "collect")) =>
      /\ ~Has(t, "call_crengine")
      /\ ~Has(t, "sigwait")
      /\ pc[t] = "done" =>
           /\ ret[t].code = "JVM_CHECKPOINT_ERROR"
           /\ Len(ret[t].err_codes) = Cardinality(BlockingFds(t))

\* C2 as stated: after evaluation, ok is true exactly when no failure was
\* recorded or the attempt is a dry run.
C2_OkIffNoFailureOrDryRun ==
  \A t \in Threads :
    Has(t, "evaluate") => (ok[t] <=> (_failures[t] = <<>> \/ _dry_run[t]))

\* C2 amended: after evaluation, ok is true exactly when the attempt is not a
\* dry run and no failure was recorded; the failure list has one entry per
\* blocking descriptor, so zero blocking descriptors give an empty list in
\* both modes and ok = true in a real attempt only.
C2_OkIffRealAndNoFailure ==
  \A t \in Threads :
    Has(t, "evaluate") =>
      /\ ok[t] <=> (~_dry_run[t] /\ _failures[t] = <<>>)
      /\ Len(_failures[t]) = Cardinality(BlockingFds(t))
      /\ BlockingFds(t) = {} => (_failures[t] = <<>> /\ (ok[t] <=> ~_dry_run[t]))

C2_Witness ==
  \E t \in Threads :
    Has(t, "evaluate") /\ _dry_run[t] /\ BlockingFds(t) = {} /\ ~ok[t]

\* C3: a real attempt with CRDoThrowCheckpointException and at least one
\* blocking descriptor returns before PerfMemoryLinux::checkpoint, the engine
\* and the signal wait, and the error it returns lists one (kind, message)
\* pair per blocking descriptor, in descriptor order.
C3_ThrowPolicyAbortsBeforePersist ==
  \A t \in Threads :
    (~_dry_run[t] /\ CRDoThrowCheckpointException /\ Has(t, "evaluate")
       /\ BlockingFds(t) # {}) =>
      /\ Has(t, "abort")
      /\ ~Has(t, "persist") /\ ~Has(t, "persist_failed")
      /\ ~Has(t, "call_crengine") /\ ~Has(t, "sigwait")
      /\ ~_ok[t]
      /\ pc[t] = "done" =>
           /\ ret[t].code = "JVM_CHECKPOINT_ERROR"
           /\ Len(ret[t].err_codes) = Cardinality(BlockingFds(t))
           /\ Len(ret[t].err_msgs) = Cardinality(BlockingFds(t))
           /\ \A k \in 1..Cardinality(BlockingFds(t)) :
                LET st == get_stat(fds[t], Nth(BlockingFds(t), k))
                IN /\ ret[t].err_codes[k] = stat2stfail(st.type)
                   /\ ret[t].err_msgs[k] = CracFailDep(st).msg

C3_Witness ==
  \E t \in Threads :
    /\ pc[t] = "done" /\ ~_dry_run[t] /\ CRDoThrowCheckpointException
    /\ Cardinality(BlockingFds(t)) >= 2
    /\ Len(ret[t].err_codes) >= 2

\* C4 as stated: a real attempt without CRDoThrowCheckpointException that has
\* blocking descriptors tries to persist the performance counters, calls the
\* engine once they are persisted, and returns success when the engine exits
\* 0 and a valid restore signal arrives.
C4_SkipPolicyInvokesEngine ==
  \A t \in Threads :
    (~_dry_run[t] /\ ~CRDoThrowCheckpointException /\ Returned(t)
       /\ Has(t, "evaluate") /\ _failures[t] # <<>>) =>
      /\ Has(t, "persist") \/ Has(t, "persist_failed")
      /\ Has(t, "persist") => Has(t, "call_crengine")
      /\ (Has(t, "engine_exit0")
            /\ (Has(t, "signal_queued_0") \/ Has(t, "signal_queued_id"))) => _ok[t]

\* C4 amended: such an attempt is never stopped by its blocking descriptors:
\* it tries to persist the performance counters; once they are persisted it
\* calls the engine unless CRAllowToSkipCheckpoint is set, in which case the
\* engine and the signal wait are skipped; it returns success when the
\* counters were persisted and either the checkpoint was skipped or the engine
\* exited 0 and a valid restore signal arrived.
C4_SkipPolicyProceeds ==
  \A t \in Threads :
    (~_dry_run[t] /\ ~CRDoThrowCheckpointException
       /\ Has(t, "evaluate") /\ _failures[t] # <<>>) =>
      /\ ~Has(t, "abort")
      /\ Returned(t) =>
           /\ Has(t, "persist") \/ Has(t, "persist_failed")
           /\ (Has(t, "persist") /\ ~CRAllowToSkipCheckpoint) => Has(t, "call_crengine")
           /\ (Has(t, "persist") /\ CRAllowToSkipCheckpoint) =>
                (~Has(t, "call_crengine") /\ ~Has(t, "sigwait") /\ _ok[t])
           /\ (Has(t, "engine_exit0")
                 /\ (Has(t, "signal_queued_0") \/ Has(t, "signal_queued_id"))) => _ok[t]
      /\ (pc[t] = "done" /\ _ok[t]) =>
           (ret[t].code = "JVM_CHECKPOINT_OK" /\ Has(t, "restored"))

C4_Witness ==
  \E t \in Threads :
    /\ pc[t] = "done" /\ ~_dry_run[t] /\ ~CRDoThrowCheckpointException
    /\ _failures[t] # <<>> /\ Has(t, "engine_exit0") /\ Has(t, "signal_queued_0")
    /\ ret[t].code = "JVM_CHECKPOINT_OK"

\* C5: at most one thread is inside the VM operation; whoever is inside,
\* the whole time up to and including the wait for the restore signal, owns
\* Heap_lock, and a second caller has not started collecting state.
C5_OneAttemptAtATime ==
  /\ \A t \in Threads : InDoit(t) => Heap_lock = t
  /\ \A t1, t2 \in Threads : (InDoit(t1) /\ InDoit(t2)) => t1 = t2
  /\ \A t1, t2 \in Threads :
       (t1 # t2 /\ InDoit(t1) /\ hist[t1] # <<>>) =>
         (hist[t2] = <<>> \/ pc[t2] \in {"result", "done"})

C5_Witness ==
  \E t1, t2 \in Threads :
    t1 # t2 /\ pc[t1] = "sigwait" /\ pc[t2] = "lock" /\ Heap_lock = t1

\* position of an event in the order of the orchestrator's steps
Rank(e) ==
  CASE e \in {"sysconf_failed", "mark_closed_slot"} -> 0
    [] e = "collect" -> 1
    [] e = "evaluate" -> 2
    [] e = "heap_dump" -> 3
    [] e = "abort" -> 4
    [] e \in {"persist", "persist_failed"} -> 5
    [] e \in {"skip_checkpoint", "report_ok"} -> 6
    [] e = "call_crengine" -> 7
    [] e \in EngineFailures \cup {"engine_exit0"} -> 8
    [] e \in {"sigwait", "sigwait_eintr"} -> 9
    [] e \in {"signal_not_queued", "signal_queued_negative", "signal_queued_0",
              "signal_queued_id"} -> 10
    [] e = "shm_open" -> 11
    [] e = "shm_unlink" -> 12
    [] e = "shm_read" -> 13
    [] e = "perf_restore" -> 14
    [] e = "restored" -> 15
    [] e \in {"vm_crash", "vm_exit_out_of_memory"} -> 16

ValidSignal(t) == Has(t, "signal_queued_0") \/ Has(t, "signal_queued_id")

\* C6 as stated: under every flag configuration an attempt succeeds only
\* after the counters were persisted, the engine was called and exited 0, and
\* the restore signal was received.
C6_SuccessOnlyAfterEngineAndSignal ==
  \A t \in Threads :
    _ok[t] =>
      /\ Has(t, "persist")
      /\ Has(t, "call_crengine") /\ Has(t, "engine_exit0")
      /\ Has(t, "sigwait") /\ ValidSignal(t)

\* C6 amended: the steps of an attempt happen in the stated order, and an
\* attempt succeeds only after the counters were persisted and, unless
\* CRAllowToSkipCheckpoint is set, the engine was called and exited 0 and a
\* valid restore signal was received; with CRAllowToSkipCheckpoint set the
\* engine and the signal wait are skipped.
C6_SuccessOnlyAfterEngineUnlessSkipped ==
  \A t \in Threads :
    /\ \A j, k \in 1..Len(hist[t]) : j < k => Rank(hist[t][j]) < Rank(hist[t][k])
    /\ _ok[t] <=> Has(t, "restored")
    /\ _ok[t] =>
         /\ Has(t, "collect") /\ Has(t, "evaluate") /\ Has(t, "persist")
         /\ IF CRAllowToSkipCheckpoint
            THEN Has(t, "skip_checkpoint") /\ ~Has(t, "call_crengine") /\ ~Has(t, "sigwait")
            ELSE /\ Has(t, "call_crengine") /\ Has(t, "engine_exit0")
                 /\ Has(t, "sigwait") /\ ValidSignal(t)

C6_Witness ==
  \E t \in Threads :
    /\ pc[t] = "done" /\ ret[t].code = "JVM_CHECKPOINT_OK"
    /\ CRAllowToSkipCheckpoint /\ ~Has(t, "call_crengine")

\* C7: when the engine cannot be spawned, exits with a non-zero status or
\* ends abnormally, doit returns at once: the signal wait is not entered,
\* PerfMemory is restored, and the caller gets an error.
C7_EngineFailureReturnsError ==
  \A t \in Threads :
    EngineFailed(t) =>
      /\ Returned(t)
      /\ ~Has(t, "sigwait") /\ ~ValidSignal(t)
      /\ ~Has(t, "signal_not_queued") /\ ~Has(t, "signal_queued_negative")
      /\ ~_ok[t]
      /\ Has(t, "persist") /\ Count(t, "perf_restore") = 1 /\ perf = "mapped"
      /\ pc[t] = "done" => ret[t].code = "JVM_CHECKPOINT_ERROR"

C7_Witness ==
  \E t \in Threads :
    /\ pc[t] = "done" /\ Has(t, "engine_exit_nonzero")
    /\ ret[t].code = "JVM_CHECKPOINT_ERROR" /\ perf = "mapped"

\* C8: PerfMemory is restored only after it was persisted in the same
\* attempt, at most once, and when doit has returned it has been restored
\* exactly as often as it was persisted; until then persisted memory stays
\* in the file.
C8_PerfRestoredIffPersisted ==
  \A t \in Threads :
    /\ Count(t, "perf_restore") <= Count(t, "persist")
    /\ Count(t, "persist") <= 1
    /\ Returned(t) => (Count(t, "perf_restore") = Count(t, "persist") /\ perf = "mapped")
    /\ (InDoit(t) /\ ~Returned(t) /\ Has(t, "persist")) => perf = "file"

C8_Witness ==
  \E t \in Threads :
    /\ pc[t] = "done" /\ Has(t, "persist") /\ Has(t, "signal_not_queued")
    /\ Count(t, "perf_restore") = 1 /\ perf = "mapped"

\* C9: a restore signal queued with value 0 ends the attempt successfully
\* with no new arguments and no new properties, without opening a segment,
\* and the restore time and counter are the clocks read after the signal
\* was received.
C9_PayloadZeroKeepsParameters ==
  \A t \in Threads :
    (Has(t, "signal_queued_0") /\ Returned(t)) =>
      /\ _ok[t]
      /\ ~Has(t, "shm_open") /\ ~Has(t, "shm_read")
      /\ _restore_parameters[t] = NoParameters
      /\ javaTimeMillis(sig_at[t]) <= _restore_start_time
      /\ _restore_start_time <= javaTimeMillis(now)
      /\ javaTimeNanos(sig_at[t]) <= _restore_start_counter
      /\ _restore_start_counter <= javaTimeNanos(now)
      /\ pc[t] = "done" =>
           ret[t] = ret_cr("JVM_CHECKPOINT_OK", NullStr, <<>>, <<>>, <<>>)

C9_Witness ==
  \E t \in Threads :
    /\ pc[t] = "done" /\ Has(t, "signal_queued_0")
    /\ ret[t].code = "JVM_CHECKPOINT_OK"
    /\ \E id \in ShmIds : shm[id].exists
    /\ sig_at[t] > 1

\* C10: a restore signal that was not queued, or was queued with a negative
\* value, fails the attempt: the caller gets an error, PerfMemory is
\* restored, no segment is opened, and the restore time and counter keep the
\* values they had when the attempt began.
C10_InvalidSignalFails ==
  \A t \in Threads :
    (Has(t, "signal_not_queued") \/ Has(t, "signal_queued_negative")) =>
      /\ Returned(t)
      /\ ~_ok[t]
      /\ Count(t, "perf_restore") = 1 /\ perf = "mapped"
      /\ ~Has(t, "shm_open") /\ ~Has(t, "shm_read")
      /\ <<_restore_start_time, _restore_start_counter>> = at_entry[t]
      /\ pc[t] = "done" => ret[t].code = "JVM_CHECKPOINT_ERROR"

C10_Witness ==
  \E t \in Threads :
    /\ pc[t] = "done" /\ Has(t, "signal_queued_negative")
    /\ ret[t].code = "JVM_CHECKPOINT_ERROR"
    /\ \E id \in ShmIds : shm[id].exists

\* the "key=value" strings of a property list, as write_to formats them
PropStrings(props) ==
  [k \in 1..Len(props) |-> props[k].key \o <<EQUALS>> \o props[k].value]

\* the segment the attempt was pointed at held the complete block of the
\* restoring process
ReadCompleteBlock(t) ==
  /\ Has(t, "signal_queued_id") /\ Has(t, "shm_read")
  /\ restorer.wrote /\ restorer.id = shmid[t]

\* C11: when the restore signal carries a positive payload n and the block
\* in the segment named for n is read, the attempt ends successfully; the
\* restore time and counter are those of the block's header, and when the
\* block is the complete block of the restoring process the caller gets its
\* argument string and its property strings and the time and counter that
\* process took.
C11_BlockReadGivesItsParameters ==
  \A t \in Threads :
    (Has(t, "signal_queued_id") /\ Has(t, "shm_read") /\ Returned(t)) =>
      /\ _ok[t]
      /\ shmid[t] > 0
      /\ Len(seen[t].bytes) >= HeaderCells =>
           /\ _restore_start_time = seen[t].bytes[1]
           /\ _restore_start_counter = seen[t].bytes[2]
      /\ ReadCompleteBlock(t) =>
           /\ _restore_start_time = restorer.restore_time
           /\ _restore_start_counter = restorer.restore_counter
           /\ _restore_parameters[t].args = Str(restorer.params.args)
           /\ _restore_parameters[t].properties = PropStrings(restorer.params.props)
           /\ pc[t] = "done" =>
                ret[t] = ret_cr("JVM_CHECKPOINT_OK", Str(restorer.params.args),
                                PropStrings(restorer.params.props), <<>>, <<>>)

C11_Witness ==
  \E t \in Threads :
    /\ pc[t] = "done" /\ ReadCompleteBlock(t)
    /\ ret[t].code = "JVM_CHECKPOINT_OK"
    /\ ret[t].new_args = Str(<<77>>) /\ Len(ret[t].new_props) = 1
    /\ _restore_start_time < javaTimeMillis(sig_at[t])

\* the counts of the header lead out of the cells the segment holds
Overruns(bytes) ==
  \/ Len(bytes) < HeaderCells
  \/ read_from(bytes, "ok", <<>>, TRUE).fault
  \/ read_from(bytes, "ok", <<>>, TRUE).args = WildStr

\* read_shm was called and could not read a block
ReadFailure(t) ==
  /\ Has(t, "shm_open")
  /\ \/ seen[t].case \in {"no_segment", "fstat_failed", "read_failed"}
     \/ seen[t].case = "ok" /\ Overruns(seen[t].bytes)

\* C12: a failure to read the restore-parameter block (no segment, fstat or
\* read error, header counts that overrun the segment) does not fail the
\* resume: the process goes on, the attempt ends successfully with no new
\* arguments and no new properties, and the restore time and counter are the
\* clocks read after the signal.
C12_ReadFailureKeepsResume ==
  \A t \in Threads :
    ReadFailure(t) =>
      /\ pc[t] # "crashed"
      /\ Returned(t) =>
           /\ _ok[t]
           /\ _restore_parameters[t] = NoParameters
           /\ javaTimeMillis(sig_at[t]) <= _restore_start_time
           /\ _restore_start_time <= javaTimeMillis(now)
           /\ javaTimeNanos(sig_at[t]) <= _restore_start_counter
           /\ _restore_start_counter <= javaTimeNanos(now)

\* the signal the engine sends for the restoring process: the value of
\* CRAC_NEW_ARGS_ID, 0 when it is not set
AdvertisedSignal(t) ==
  \/ Has(t, "signal_queued_0") /\ restorer.CRAC_NEW_ARGS_ID = 0
  \/ Has(t, "signal_queued_id") /\ restorer.CRAC_NEW_ARGS_ID = shmid[t]

\* C15: once the resumed runtime has finished its attempt, the segment the
\* restoring process created is gone, also when the write failed and when
\* the signal carried 0; the reader unlinks the segment it was pointed at
\* whether or not it could open or read it, and calls read_shm at most once.
C15_NoSegmentOutlivesHandoff ==
  \A t \in Threads :
    /\ Count(t, "shm_open") <= 1
    /\ Count(t, "shm_unlink") = Count(t, "shm_open")
    /\ (Has(t, "shm_unlink") /\ shmid[t] \in ShmIds) => ~shm[shmid[t]].exists
    /\ (Returned(t) /\ AdvertisedSignal(t) /\ restorer.opened) =>
         ~shm[restorer.id].exists

\* C20: when the attempt fails because of the engine (it cannot be spawned,
\* exits with a non-zero status or ends abnormally) the error returned to
\* the caller has no per-descriptor entries, whatever the policy flags.
C20_EngineErrorHasNoDescriptorEntries ==
  \A t \in Threads :
    (EngineFailed(t) /\ pc[t] = "done") =>
      /\ ret[t].code = "JVM_CHECKPOINT_ERROR"
      /\ ret[t].err_codes = <<>>
      /\ ret[t].err_msgs = <<>>

\* number of cells of strings with their terminating zeros
RECURSIVE CellsOf(_)
CellsOf(strs) == IF strs = <<>> THEN 0 ELSE Len(Head(strs)) + 1 + CellsOf(Tail(strs))

\* C13: round trip of the parameter block: when the attempt reads the block
\* a successful write_to produced, it gets the P property strings in order,
\* passes exactly the written environment entries to putenv in order, and
\* gets the argument string unchanged; the cursor stands behind the
\* properties after the header's count of strings and behind the environment
\* exactly the header's byte length further on.
C13_BlockRoundTrip ==
  \A t \in Threads :
    (Has(t, "shm_open") /\ seen[t].case = "ok"
       /\ restorer.wrote /\ restorer.id = shmid[t]) =>
      LET in == restorer.params
      IN /\ pc[t] # "crashed" /\ Has(t, "shm_read")
         /\ _restore_parameters[t].properties = PropStrings(in.props)
         /\ Len(_restore_parameters[t].properties) = seen[t].bytes[3]
         /\ seen[t].put = in.env
         /\ \A k \in 1..Len(in.env) : (\A j \in (k + 1)..Len(in.env) :
                NameOf(in.env[j]) # NameOf(in.env[k])) => in.env[k] \in environ
         /\ _restore_parameters[t].args = Str(in.args)
         /\ seen[t].after_props = HeaderCells + CellsOf(PropStrings(in.props))
         /\ seen[t].bytes[4] = CellsOf(in.env)
         /\ seen[t].after_env = seen[t].after_props + seen[t].bytes[4]

C13_Witness ==
  \E t \in Threads :
    /\ pc[t] = "done" /\ ReadCompleteBlock(t) /\ seen[t].case = "ok"
    /\ Len(restorer.params.props) = MaxProps /\ Len(restorer.params.env) = MaxEnv
    /\ restorer.params.props[1] # restorer.params.props[2]
    /\ Len(restorer.params.args) > 1
    /\ ret[t].new_props = PropStrings(restorer.params.props)
    /\ ret[t].new_args = Str(restorer.params.args)

\* the cells of buffers one after the other
RECURSIVE Flatten(_)
Flatten(bufs) == IF bufs = <<>> THEN <<>> ELSE Head(bufs) \o Flatten(Tail(bufs))

\* the complete block of the restoring process
CompleteBlock ==
  Flatten(WriteBuffers(restorer.params.props, restorer.params.env, restorer.params.args,
                       restorer.restore_time, restorer.restore_counter))

\* C14: when a write of the header, of a property, of an environment entry
\* or of the argument string fails or is short, write_to fails and
\* CRAC_NEW_ARGS_ID is not set; it is set only to the id of a segment that
\* holds the complete block, so an attempt that is sent the advertised id
\* never reads a partly written block.
C14_WriteAllOrNothing ==
  /\ restorer.state = "execed" =>
       /\ restorer.w.at # 0 => (~restorer.wrote /\ restorer.CRAC_NEW_ARGS_ID = 0)
       /\ restorer.CRAC_NEW_ARGS_ID # 0 =>
            /\ restorer.CRAC_NEW_ARGS_ID = restorer.id /\ restorer.wrote
            /\ shm[restorer.id].exists =>
                 SubSeq(shm[restorer.id].bytes, 1, Len(CompleteBlock)) = CompleteBlock
  /\ \A t \in Threads :
       (Has(t, "signal_queued_id") /\ AdvertisedSignal(t) /\ Has(t, "shm_open")
          /\ seen[t].case # "no_segment") =>
         SubSeq(seen[t].bytes, 1, Len(CompleteBlock)) = CompleteBlock

C14_Witness ==
  /\ restorer.state = "execed" /\ restorer.opened
  /\ restorer.w.at > 1 /\ restorer.w.wret > 0
  /\ shm[restorer.id].exists /\ Len(shm[restorer.id].bytes) > HeaderCells
  /\ restorer.CRAC_NEW_ARGS_ID = 0

\* the registry's descriptor numbers ascend strictly
SortedRegistry ==
  \A k \in 1..(Len(_persistent_resources.list) - 1) :
    _persistent_resources.list[k].fd < _persistent_resources.list[k + 1].fd

\* the step is a call of register_persistent_fd
RegisterCall == regop'.op = "register" /\ regop'.call # regop.call

\* C16: whatever register and deregister calls were made, the registry is
\* sorted in strictly ascending descriptor number, so it holds at most one
\* entry per descriptor number; a register call for a descriptor number that
\* is present replaces that entry's device and inode and adds nothing, and a
\* call for one that is absent adds exactly that entry.
C16_RegistrySortedAndUnique ==
  /\ []SortedRegistry
  /\ [][(RegisterCall /\ CRaCCheckpointTo # NULL) =>
          LET a == regop'.arg
              old == _persistent_resources.list
              new == _persistent_resources'.list
          IN IF \E k \in 1..Len(old) : old[k].fd = a.fd
             THEN /\ Len(new) = Len(old)
                  /\ \A k \in 1..Len(old) :
                       new[k] = IF old[k].fd = a.fd THEN a ELSE old[k]
             ELSE /\ Len(new) = Len(old) + 1
                  /\ \E k \in 1..Len(new) :
                       /\ new[k] = a
                       /\ remove_at(new, k - 1) = old]_vars

\* descriptor 3 was registered with another identity while 2, 3 and 6 were
\* in the registry
C16_Witness ==
  /\ regop.op = "register" /\ regop.present
  /\ regop.arg = PersistentResourceDesc(3, 8, 200)
  /\ Len(_persistent_resources.list) = 3
  /\ _persistent_resources.list[2] = regop.arg

\* the step is a return of deregister_persistent_fd
DeregisterReturn ==
  /\ regop'.op = "deregister" /\ regop'.returned
  /\ regop'.call # regop.call \/ ~regop.returned

\* C17: deregister_persistent_fd never runs its loop without advancing, and
\* when it returns, an entry with the given descriptor number, device and
\* inode, wherever it stood in the registry, is gone with all other entries
\* kept in order, and a registry without such an entry is unchanged.
C17_DeregisterTerminatesAndRemoves ==
  /\ [](dereg.state = "loop" => ~dereg.stuck)
  /\ [][(DeregisterReturn /\ CRaCCheckpointTo # NULL) =>
          LET a == regop'.arg
              old == _persistent_resources.list
              new == _persistent_resources'.list
          IN IF \E k \in 1..Len(old) : DeregisterMatch(old[k], a.fd, a.dev, a.ino)
             THEN \E k \in 1..Len(old) :
                    /\ DeregisterMatch(old[k], a.fd, a.dev, a.ino)
                    /\ new = remove_at(old, k - 1)
             ELSE _persistent_resources' = _persistent_resources]_vars

\* descriptor e.fd is open on the file with e's device and inode
StillMatches(e) ==
  /\ e.fd \in Slots /\ proc[e.fd] # NoFd
  /\ world.file[proc[e.fd]].dev = e.dev
  /\ world.file[proc[e.fd]].ino = e.ino

\* C18: when doit collects the descriptors, every registered descriptor that
\* is open on the file with the registered device and inode gets the
\* PERSISTENT mark and is not decided "BAD", and the registry is empty
\* afterwards.
C18_RegisteredDescriptorIsAllowed ==
  [][\A t \in Threads :
       (pc[t] = "doit" /\ pc'[t] = "evaluate") =>
         /\ \A k \in 1..Len(_persistent_resources.list) :
              LET e == _persistent_resources.list[k]
              IN StillMatches(e) =>
                   /\ check(fds'[t], e.fd, M_PERSISTENT)
                   /\ Decide(fds'[t], _vm_inited_fds, _attach_op[t], e.fd)
                        # "BAD: opened by application"
         /\ _persistent_resources' = NullRegistry]_vars

\* the decision of the attempt of t on descriptor i
DecisionOf(t, i) == Decide(fds[t], _vm_inited_fds, _attach_op[t], i)

\* C19: two evaluations over the same descriptor table that began with the
\* same registry decide every descriptor alike and collect the same failure
\* list, and the failure list of an evaluation holds the blocking
\* descriptors' entries in ascending descriptor number.
C19_EvaluationIsRepeatable ==
  /\ \A t \in Threads, u \in Threads :
       (Has(t, "evaluate") /\ Has(u, "evaluate")
          /\ collected[t].registry = collected[u].registry) =>
         /\ fds[t].len = fds[u].len
         /\ \A i \in 0..(fds[t].len - 1) :
              /\ get_state(fds[t], i, CLOSED) = CLOSED <=> get_state(fds[u], i, CLOSED) = CLOSED
              /\ get_state(fds[t], i, CLOSED) # CLOSED => DecisionOf(t, i) = DecisionOf(u, i)
         /\ _failures[t] = _failures[u]
  /\ \A t \in Threads :
       Has(t, "evaluate") =>
         /\ Len(_failures[t]) = Cardinality(BlockingFds(t))
         /\ \A k \in 1..Len(_failures[t]) :
              _failures[t][k] = CracFailDep(get_stat(fds[t], Nth(BlockingFds(t), k)))

\* two evaluations were made with descriptors 2 and 4 registered, the
\* second one after the first had changed the flags of the descriptions
C19_Witness ==
  /\ Has(1, "evaluate") /\ Has(2, "evaluate")
  /\ collected[1].registry = collected[2].registry
  /\ Len(collected[1].registry.list) = 2
  /\ collected[1].flags # collected[2].flags
  /\ Len(_failures[2]) >= 2

\* the descriptor numbers that are open when the table is built
OpenFds == {i \in Slots : proc[i] # NoFd}

\* the attempt of t has built its table
Built(t) == Has(t, "collect")

\* record i of the table of t is an alias record
IsAlias(t, i) == get_state(fds[t], i, CLOSED) >= DUP_OF_0

\* C23: the table FdsInfo::initialize builds has one record for every slot
\* from 0 to the highest open descriptor and none beyond; the record of a
\* slot that is not open is CLOSED, the record of every open slot is ROOT or
\* an alias; the length is 0 when nothing is open, and the last record of a
\* table that is not empty is not CLOSED.
C23_OneRecordPerSlot ==
  \A t \in Threads :
    Built(t) =>
      /\ fds[t].len = IF OpenFds = {} THEN 0
                      ELSE 1 + CHOOSE m \in OpenFds : \A k \in OpenFds : k <= m
      /\ DOMAIN fds[t].info = 0..(fds[t].len - 1)
      /\ \A i \in 0..(fds[t].len - 1) :
           /\ proc[i] = NoFd => fds[t].info[i].state = CLOSED
           /\ proc[i] # NoFd => fds[t].info[i].state = ROOT \/ IsAlias(t, i)
      /\ fds[t].len > 0 => fds[t].info[fds[t].len - 1].state # CLOSED

\* a table with a closed slot below two open ones, and an empty table
C23_Witness ==
  \E t \in Threads :
    /\ Built(t) /\ fds[t].len = 4
    /\ fds[t].info[1].state = CLOSED /\ fds[t].info[2].state = ROOT
    /\ IsAlias(t, 3)

\* the descriptors that refer to open file description o
FdsOf(o) == {i \in Slots : proc[i] = o}

\* the lowest descriptor of description o
LowestOf(o) == CHOOSE m \in FdsOf(o) : \A k \in FdsOf(o) : m <= k

\* in the table of t the lowest descriptor of o is ROOT and every other
\* descriptor of o is an alias of it
OneRootOf(t, o) ==
  \A i \in FdsOf(o) :
    fds[t].info[i].state = IF i = LowestOf(o) THEN ROOT ELSE DUP_OF_0 + LowestOf(o)

\* in the table of t no record is an alias of a descriptor of another
\* description
NoFalseAlias(t) ==
  \A i \in 0..(fds[t].len - 1) :
    IsAlias(t, i) => proc[i] = proc[fds[t].info[i].state - DUP_OF_0]

C24_LowestIsRootWhereFlagsCanBeSet ==
  \A t \in Threads :
    Built(t) =>
      /\ \A o \in 1..Len(world.file) :
           IF world.file[o].setfl THEN OneRootOf(t, o)
           ELSE \A i \in FdsOf(o) : fds[t].info[i].state = ROOT
      /\ NoFalseAlias(t)

\* /app/persist.db is open twice, the first description on 1 and 3, the
\* second on 0 and 2
C24_Witness ==
  \E t \in Threads :
    /\ Built(t)
    /\ proc[0] = 3 /\ proc[1] = 2 /\ proc[2] = 3 /\ proc[3] = 2
    /\ fds[t].info[2].state = DUP_OF_0 + 0
    /\ fds[t].info[3].state = DUP_OF_0 + 1

\* the record that alias record i of the table of t references
RootOf(t, i) == fds[t].info[i].state - DUP_OF_0

\* C25: in every table the classifier builds, an alias record at index i
\* references an index j < i whose record is ROOT: not a closed slot, not
\* another alias, not itself.
C25_AliasRefersToLowerRoot ==
  \A t \in Threads :
    Built(t) =>
      \A i \in 0..(fds[t].len - 1) :
        IsAlias(t, i) =>
          /\ RootOf(t, i) < i
          /\ fds[t].info[RootOf(t, i)].state = ROOT

\* three descriptors of one description, with a closed slot among them
C25_Witness ==
  \E t \in Threads :
    /\ Built(t) /\ fds[t].len = 4
    /\ fds[t].info[0].state = ROOT /\ fds[t].info[1].state = CLOSED
    /\ RootOf(t, 2) = 0 /\ RootOf(t, 3) = 0

\* the attempt of t has decided its descriptors
Evaluated(t) == Has(t, "evaluate")

\* C26: a closed slot at or below the highest open descriptor is not an
\* alias record, no alias record references it, and the failure list holds
\* one entry per open descriptor that is decided "BAD", each built from an
\* open descriptor: none for a closed slot.
C26_ClosedSlotTakesNoPart ==
  \A t \in Threads :
    /\ Built(t) =>
         \A i \in 0..(fds[t].len - 1) :
           proc[i] = NoFd =>
             /\ ~IsAlias(t, i)
             /\ \A k \in 0..(fds[t].len - 1) : IsAlias(t, k) => RootOf(t, k) # i
    /\ Evaluated(t) =>
         /\ Len(_failures[t]) =
              Cardinality({i \in OpenFds :
                             DecisionOf(t, i) = "BAD: opened by application"})
         /\ \A k \in 1..Len(_failures[t]) :
              \E i \in OpenFds : _failures[t][k] = CracFailDep(world.file[proc[i]])

\* closed slots 1 and 2 between an allowed and a blocking descriptor
C26_Witness ==
  \E t \in Threads :
    /\ Evaluated(t) /\ fds[t].len = 4
    /\ proc[1] = NoFd /\ proc[2] = NoFd
    /\ Len(_failures[t]) = 1

\* C27: building the table leaves every descriptor's status flags as they
\* were and opens, closes and duplicates no descriptor.
C27_ClassificationHasNoSideEffect ==
  [][\A t \in Threads :
       (pc[t] = "doit" /\ pc'[t] = "evaluate") =>
         /\ ofd_flags' = ofd_flags
         /\ proc' = proc]_vars

\* the file that descriptor i is open on
FileOf(i) == world.file[proc[i]]

\* slot i was open when the baseline snapshot was taken
InBaseline(i) == i < Len(world.base) /\ world.base[i + 1] # NoFd

\* the first of the five rules, in the stated order, that open descriptor i
\* meets in the attempt of t, or "BAD"
RuleFor(t, i) ==
  CASE InBaseline(i) -> "OK: inherited from process env"
    [] FileOf(i).type = "S_IFCHR" /\ FileOf(i).mjr = 1 /\ FileOf(i).mnr \in {8, 9}
         -> "OK: always available, random or urandom"
    [] check(fds[t], i, M_CLASSPATH) /\ ~check(fds[t], i, M_CANT_RESTORE)
         -> "OK: in classpath"
    [] check(fds[t], i, M_PERSISTENT) -> "OK: assured persistent"
    [] FileOf(i).type = "S_IFSOCK" /\ _attach_op[t] = i -> "OK: jcmd socket"
    [] OTHER -> "BAD: opened by application"

\* the open descriptors that meet none of the rules
Unruled(t) == {i \in OpenFds : RuleFor(t, i) = "BAD: opened by application"}

\* C28: every open descriptor is decided by the first rule it meets of:
\* slot open in the baseline; character device 1:8 or 1:9; CLASSPATH and not
\* CANT_RESTORE; PERSISTENT, whatever its other marks; a socket that is the
\* control socket of the jcmd request.  A descriptor that meets none is
\* blocking, and the failure list holds exactly one record for each of them.
C28_DecisionFollowsTheRules ==
  \A t \in Threads :
    Evaluated(t) =>
      /\ \A i \in OpenFds : DecisionOf(t, i) = RuleFor(t, i)
      /\ Len(_failures[t]) = Cardinality(Unruled(t))
      /\ \A k \in 1..Len(_failures[t]) :
           _failures[t][k] = CracFailDep(FileOf(Nth(Unruled(t), k)))

\* a jcmd request with the deleted jar on the descriptor registered for it,
\* so marked CLASSPATH, CANT_RESTORE and PERSISTENT, and a second socket
\* descriptor that is not the control socket
C28_Witness ==
  \E t \in Threads :
    /\ Evaluated(t) /\ _attach_op[t] = 3
    /\ fds[t].len = 4
    /\ fds[t].info[1].mark = {M_CLASSPATH, M_CANT_RESTORE, M_PERSISTENT}
    /\ proc[2] = proc[3]
    /\ Len(_failures[t]) = 1

\* C29: the failure list holds records of ROOT descriptors only: an alias
\* gets none, so an open file description has at most one record.
C29_NoFailureForAlias ==
  \A t \in Threads :
    Evaluated(t) =>
      LET bad == {i \in OpenFds : /\ fds[t].info[i].state = ROOT
                                  /\ DecisionOf(t, i) = "BAD: opened by application"}
      IN /\ Len(_failures[t]) = Cardinality(bad)
         /\ \A k \in 1..Len(_failures[t]) :
              _failures[t][k] = CracFailDep(FileOf(Nth(bad, k)))

\* C30: a descriptor is let through as inherited only when it is open on the
\* description its slot had in the baseline snapshot.
C30_InheritedRuleAdmitsOnlyInherited ==
  \A t \in Threads :
    Evaluated(t) =>
      \A i \in OpenFds :
        DecisionOf(t, i) = "OK: inherited from process env" =>
          /\ InBaseline(i)
          /\ proc[i] = world.base[i + 1]

\* the events h of an attempt include its end as restored
RestoredIn(h) == \E k \in 1..Len(h) : h[k] = "restored"

\* C22: while no attempt has ended restored, restore_start_time and
\* uptime_since_restore return -1; the restore time and the restore counter
\* change only in the step in which an attempt ends restored, so an attempt
\* that ends at the policy abort, at the persist failure, at the engine
\* failure or at an invalid restore signal leaves them as they were.
C22_RestoreClocksOnlyWhenRestored ==
  /\ []((\A t \in Threads : ~RestoredIn(hist[t])) =>
          /\ restore_start_time(_restore_start_time) = -1
          /\ uptime_since_restore(_restore_start_counter, now) = -1)
  /\ [][timevars' # timevars =>
          \E t \in Threads : ~RestoredIn(hist[t]) /\ RestoredIn(hist'[t])]_vars

\* one attempt has ended restored and a later one has failed at the engine
\* or at the restore signal: the clocks are those of the first
C22_Witness ==
  \E t \in Threads, u \in Threads :
    /\ pc[t] = "done" /\ RestoredIn(hist[t])
    /\ pc[u] = "done" /\ ~RestoredIn(hist[u])
    /\ Has(u, "call_crengine") /\ Has(u, "perf_restore")
    /\ restore_start_time(_restore_start_time) = javaTimeMillis(1)
    /\ now > 1

\* the restore signal was delivered to the attempt with events h
DeliveredIn(h) ==
  \E k \in 1..Len(h) :
    h[k] \in {"signal_not_queued", "signal_queued_negative", "signal_queued_0",
              "signal_queued_id"}

\* the caller of t has its result: success or an error
ReturnedResult(t) ==
  pc[t] = "done" /\ ret[t].code \in {"JVM_CHECKPOINT_OK", "JVM_CHECKPOINT_ERROR"}

\* the thread of t has a step of its own to take
CanStep(t) ==
  ENABLED (Finish(t) \/ ReleaseHeapLock(t) \/ Result(t))

\* C21: an attempt that waits for the restore signal leaves the wait only
\* in the step that delivers the signal: no other step ends it, and an
\* interrupted wait goes on; once the engine has exited and the signal has
\* been delivered, the attempt goes on, step by step, until it has returned
\* success or an error to its caller: it is never left without a result and
\* without a step to take.
C21_WaitEndsOnlyBySignalThenReturns ==
  /\ [][\A t \in Threads :
          (pc[t] = "sigwait" /\ pc'[t] # "sigwait") =>
            ~DeliveredIn(hist[t]) /\ DeliveredIn(hist'[t])]_vars
  /\ [](\A t \in Threads : DeliveredIn(hist[t]) => ReturnedResult(t) \/ CanStep(t))

\* the registry entries the attempt of t found when it began
RegisteredAt(t) ==
  {collected[t].registry.list[k] : k \in 1..Len(collected[t].registry.list)}

\* C31: every registered descriptor that is open on a file with the
\* registered device and inode is marked PERSISTENT in the table, whatever
\* the position of its entry in the registry and whether its record is ROOT
\* or an alias of a lower descriptor.
C31_RegisteredMatchIsMarked ==
  \A t \in Threads :
    Built(t) =>
      \A pr \in RegisteredAt(t) :
        (/\ pr.fd \in OpenFds
         /\ FileOf(pr.fd).dev = pr.dev
         /\ FileOf(pr.fd).ino = pr.ino)
          => check(fds[t], pr.fd, M_PERSISTENT)

\* the class path elements and the extension directories that exist
ClassPathElements ==
  {world.syscp[k] : k \in 1..Len(world.syscp)} \cup {world.appcp[k] : k \in 1..Len(world.appcp)}

ExtDirs == {world.extdirs[k] : k \in 1..Len(world.extdirs)}

\* descriptor i is open on a class path element, or on an entry of one of
\* the extension directories
OnClassPath(i) ==
  \/ \E cp \in ClassPathElements :
       cp.exists /\ cp.dev = FileOf(i).dev /\ cp.ino = FileOf(i).ino
  \/ \E d \in ExtDirs :
       d.exists /\ d.dev = FileOf(i).dev /\ FileOf(i).ino \in d.dents

\* C32: an open descriptor is marked CLASSPATH exactly when its device and
\* inode are those of an element of the system or application class path or
\* of an entry of one of the extension directories, the last directory of
\* the list included.
C32_ClasspathMarkIffOnClassPath ==
  \A t \in Threads :
    Built(t) =>
      \A i \in OpenFds : check(fds[t], i, M_CLASSPATH) <=> OnClassPath(i)

\* the base name of path starts with ".nfs" followed by NFS_FILEID_LEN +
\* NFS_COUNTER_LEN hexadecimal digits
SillyPattern(path) ==
  LET base == BaseOf(path)
  IN /\ Len(base) >= NFS_LEN
     /\ SubSeq(base, 1, NFS_PREF_LEN) = NFS_PREF
     /\ \A k \in (NFS_PREF_LEN + 1)..NFS_LEN :
          base[k] \in (48..57) \cup (65..70) \cup (97..102)

KindOfType(type) ==
  IF type = "S_IFSOCK" THEN "JVM_CR_FAIL_SOCK"
  ELSE IF type = "S_IFIFO" THEN "JVM_CR_FAIL_PIPE"
  ELSE IF type = "S_IFREG" \/ type = "S_IFDIR" \/ type = "S_IFBLK"
          \/ type = "S_IFCHR" \/ type = "S_IFLNK"
  THEN "JVM_CR_FAIL_FILE"
  ELSE "JVM_CR_FAIL"

\* C34: the k-th record of the failure list is that of the k-th blocking
\* descriptor, and its kind is the one its file type stands for: SOCK for a
\* socket, FILE for a regular file, a directory, a block or character device
\* and a symbolic link, PIPE for a FIFO, and the generic kind otherwise.
C34_FailureKindFollowsFileType ==
  \A t \in Threads :
    Evaluated(t) =>
      /\ Len(_failures[t]) = Cardinality(BlockingFds(t))
      /\ \A k \in 1..Len(_failures[t]) :
           _failures[t][k].type = KindOfType(FileOf(Nth(BlockingFds(t), k)).type)

\* failure lists with the kinds SOCK, FILE (a directory) and PIPE
C34_Witness ==
  \E t \in Threads :
    /\ Evaluated(t) /\ Len(_failures[t]) = 3
    /\ _failures[t][1].type = "JVM_CR_FAIL_SOCK"
    /\ _failures[t][2].type = "JVM_CR_FAIL_FILE" /\ proc[2] = 4
    /\ _failures[t][3].type = "JVM_CR_FAIL_PIPE"

\* the open-file limit could not be told when the attempt of t sized its table
SizingFailed(t) == Has(t, "sysconf_failed")

\* C35: an attempt whose table cannot be sized because the limit query fails
\* decides no descriptor, persists nothing and calls no engine; it is a
\* failed attempt: the VM goes on, and the caller gets an error.
C35_SizingFailureFailsTheAttempt ==
  \A t \in Threads :
    SizingFailed(t) =>
      /\ ~Has(t, "evaluate") /\ ~Has(t, "persist") /\ ~Has(t, "call_crengine")
      /\ pc[t] # "crashed"
      /\ pc[t] = "done" => ret[t].code = "JVM_CHECKPOINT_ERROR"

\* an attempt is between the start of its classification and the end of its
\* policy evaluation
Classified(t) == pc[t] = "evaluate"

\* C36: classification starts only when no thread is inside a registry call
\* (the is_at_safepoint assertion of do_classpaths), and from then until the
\* policy evaluation has ended no descriptor is opened or closed and no
\* registration or deregistration takes a step.
C36_ParkedFromClassificationToEvaluation ==
  [][/\ \A t \in Threads : pc[t] = "doit" /\ pc'[t] # "doit" => dereg.state = "idle"
     /\ (\E t \in Threads : Classified(t)) =>
          /\ proc' = proc /\ ofd_flags' = ofd_flags
          /\ regop' = regop /\ dereg' = dereg
          /\ _persistent_resources' = _persistent_resources]_vars

\* an attempt is classified after the application has closed a descriptor
\* and a deregistration has returned
C36_Witness ==
  \E t \in Threads :
    /\ Classified(t)
    /\ proc # SlotsOf(world.cur)
    /\ regop.op = "deregister" /\ regop.returned /\ regop.present

\* no caller is inside register_persistent_fd
NoCallRunning == \A c \in Callers : reg_call[c].state = "idle"

\* C37: when the concurrent register calls have returned, the registry is
\* sorted by descriptor number, holds no descriptor number twice and holds
\* an entry for every descriptor number that was registered.
C37_ConcurrentCallsKeepRegistry ==
  NoCallRunning =>
    /\ SortedRegistry
    /\ \A fd \in registered :
         \E k \in 1..Len(_persistent_resources.list) : _persistent_resources.list[k].fd = fd

\* the attempt of t blocks on descriptor i
Blocked(t, i) == DecisionOf(t, i) = "BAD: opened by application"

\* C38: of the descriptors of one open file description, none of them in
\* the baseline or the jcmd socket, the ROOT and each of its aliases are all
\* allowed or all blocking, whatever marks the ROOT carries.
C38_AliasesDecidedAsTheirRoot ==
  \A t \in Threads :
    Evaluated(t) =>
      \A i \in 0..(fds[t].len - 1) :
        (/\ IsAlias(t, i)
         /\ ~InBaseline(i) /\ ~InBaseline(RootOf(t, i))
         /\ _attach_op[t] \notin {i, RootOf(t, i)}) =>
          (Blocked(t, i) <=> Blocked(t, RootOf(t, i)))

\* C39: in every attempt, whatever the table (closed slots between open
\* ones included), mark, clear and check are never called for a CLOSED
\* record, so that the assertions of assert_mark hold at every call.
C39_MarkNeverCalledOnClosedRecord ==
  \A t \in Threads : ~Has(t, "mark_closed_slot")

\* every a in the history of t stands before every b
Before(t, a, b) ==
  \A j, k \in 1..Len(hist[t]) : (hist[t][j] = a /\ hist[t][k] = b) => j < k

\* C40: the OK response is sent at most once per attempt and only in an
\* attempt triggered through jcmd; when it is sent, the evaluation has passed
\* or its failures are waived (CRDoThrowCheckpointException off), the
\* counters are persisted, the attempt has not aborted on policy or on a
\* persist failure, checkpoint skipping is off, the engine is invoked after
\* it, and the attempt's output stream is the console from then on.  A jcmd
\* attempt that invokes the engine has sent it.
C40_OkResponseOnceBeforeEngine ==
  \A t \in Threads :
    /\ Count(t, "report_ok") <= 1
    /\ Has(t, "report_ok") =>
         /\ _attach_op[t] # NoFd
         /\ Has(t, "evaluate") /\ Before(t, "evaluate", "report_ok")
         /\ ok[t] \/ ~CRDoThrowCheckpointException
         /\ Has(t, "persist") /\ Before(t, "persist", "report_ok")
         /\ ~Has(t, "abort") /\ ~Has(t, "persist_failed")
         /\ ~CRAllowToSkipCheckpoint /\ ~Has(t, "skip_checkpoint")
         /\ Has(t, "call_crengine") /\ Before(t, "report_ok", "call_crengine")
         /\ _ostream[t] = "tty"
    /\ (Has(t, "call_crengine") /\ _attach_op[t] # NoFd) => Has(t, "report_ok")

\* a jcmd attempt with waived failures has sent the response and waits for
\* the restore signal
C40_Witness ==
  \E t \in Threads :
    /\ Has(t, "report_ok") /\ ~ok[t] /\ _failures[t] # <<>>
    /\ pc[t] = "sigwait"

====
